---------------------------- MODULE Spec2Model ----------------------------
(***************************************************************************)
(* Model of the resume critique engine of                                  *)
(* src/components/resume/ResumePreview.tsx (the component that starts at   *)
(* line 856 of the file): the raster margin scanner, the line clusterer,   *)
(* the line-utilization pass, the document-wide detectors, and the React   *)
(* state they commit to under page / zoom navigation.                      *)
(*                                                                         *)
(* Units.  Document space is in integer points.  A zoom factor is kept as  *)
(* a number of quarters (1.0 is 4), and every viewport (screen) length is  *)
(* kept in quarter pixels, so that x * scale is an integer: a length of    *)
(* n CSS pixels in the source is n * Q here.  Quotients the source         *)
(* computes in floating point are kept as exact fractions <<num, den>>.    *)
(***************************************************************************)
EXTENDS Integers, Sequences, FiniteSets, TLC

VARIABLES
    doc,                  \* index of the loaded file in Docs (the downloadURL prop)
    numPages,             \* useState numPages
    pageNumber,           \* useState pageNumber
    scale,                \* useState scale, in quarters
    loading,              \* useState loading
    error,                \* useState error
    pdfDoc,               \* useState pdfDoc: FALSE is null, TRUE is the loaded proxy
    marginData,           \* useState marginData (NoMargin is null)
    whitespaceIndicators, \* useState whitespaceIndicators
    seasonIssues,         \* useState seasonIssues
    degreeIssues,         \* useState degreeIssues
    clutterIssues,        \* useState clutterIssues
    sectionOrderIssues,   \* useState sectionOrderIssues
    sectionSizeIssues,    \* useState sectionSizeIssues
    selectedSolution,     \* useState selectedSolution
    canvas,               \* the <canvas> under pageContainerRef: NoCanvas or the (page, scale) it shows
    renderPending,        \* react-pdf is rendering the selected page
    rafQueue,             \* requestAnimationFrame(analyzeMargins) callbacks wait for the next frame
    wsPasses,             \* analyzeWhitespace calls suspended at an await
    det,                  \* the five document-wide detector calls: position and local result list
    navs,                 \* number of page / zoom changes so far (bounded by MaxNav)
    wsTag,                \* history: the (page, scale) closure of the pass that wrote whitespaceIndicators
    mgTag,                \* history: the (page, scale) of the raster marginData was measured from
    lastCommit,           \* history: the previous commit of a page-scoped pass, per kind,
                          \* and the entry selected by the last card click
    cl,                   \* state of one line-clustering loop (SpecCluster)
    ms,                   \* state of one detectWhitespaceMargins call (SpecMargin)
    tx                    \* state of one text pass over a page given on its own

compVars == <<doc, numPages, pageNumber, scale, loading, error, pdfDoc, marginData,
              whitespaceIndicators, seasonIssues, degreeIssues, clutterIssues,
              sectionOrderIssues, sectionSizeIssues, selectedSolution, canvas,
              renderPending, rafQueue, wsPasses, det, navs, wsTag, mgTag, lastCommit>>

vars == <<compVars, cl, ms, tx>>

----------------------------------------------------------------------------
(* Bounds of the model *)

MaxNav == 2          \* page / zoom changes explored
MaxPasses == 2       \* analyzeWhitespace calls in flight at once
MaxFrags == 3        \* fragments of one clustering input
MaxY == 5            \* largest baseline-y of a clustering input
MaxDim == 3          \* largest raster width / height
MaxDark == 2         \* non-white pixels placed on a raster

(* Program constants *)

ZOOM_LEVELS == <<2, 3, 4, 5, 6, 7, 8>>   \* 0.5 .. 2.0 in quarters
Q == ZOOM_LEVELS[3]                      \* zoom 1.0: quarter pixels per CSS pixel
NEAR_WHITE_THRESHOLD == 230
LINE_TOLERANCE_PTS == 2
DEFAULT_HEIGHT == 12                     \* the `|| 12` fallback of an item height
HEADER_MAX_LEN_WS == 60
HEADER_MAX_LEN == 40
SECTION_KEYWORDS == <<"summary", "education", "experience", "projects", "leadership",
                      "skills", "technical skills", "academic projects", "activities">>

NoCanvas == [page |-> 0, scale |-> 0]
NoMargin == [present |-> FALSE]
NoTag == [page |-> 0, scale |-> 0]

----------------------------------------------------------------------------
(* Arithmetic and sequence helpers *)

Abs(n) == IF n < 0 THEN -n ELSE n

Min2(a, b) == IF a <= b THEN a ELSE b

Max2(a, b) == IF a >= b THEN a ELSE b

RECURSIVE SeqMin(_)
SeqMin(s) == IF Len(s) = 1 THEN s[1] ELSE Min2(s[1], SeqMin(Tail(s)))

RECURSIVE SeqMax(_)
SeqMax(s) == IF Len(s) = 1 THEN s[1] ELSE Max2(s[1], SeqMax(Tail(s)))

RECURSIVE SeqSum(_)
SeqSum(s) == IF s = <<>> THEN 0 ELSE s[1] + SeqSum(Tail(s))

RECURSIVE Flatten(_)
Flatten(ss) == IF ss = <<>> THEN <<>> ELSE ss[1] \o Flatten(Tail(ss))

SelectIdx(s, keep) == \* s restricted to the indices in keep, order preserved
    LET RECURSIVE go(_)
        go(i) == IF i > Len(s) THEN <<>>
                 ELSE (IF i \in keep THEN <<s[i]>> ELSE <<>>) \o go(i + 1)
    IN go(1)

\* Array.prototype.sort(cmp): stable; cmp[i][j] is the comparator on s[i] and
\* s[j], and a value > 0 puts s[j] before s[i]
StableSort(s, cmp) ==
    LET RECURSIVE ins(_, _)
        ins(sorted, e) == \* e goes after every element that does not sort after it
            IF sorted = <<>> THEN <<e>>
            ELSE IF cmp[sorted[Len(sorted)]][e] <= 0 THEN Append(sorted, e)
            ELSE Append(ins(SubSeq(sorted, 1, Len(sorted) - 1), e), sorted[Len(sorted)])
        RECURSIVE build(_)
        build(n) == IF n = 0 THEN <<>> ELSE ins(build(n - 1), n)
        perm == build(Len(s))
    IN [i \in 1..Len(s) |-> s[perm[i]]]

\* sort((a, b) => key(a) - key(b)); keys[i] is the key of s[i]
SortAsc(s, keys) ==
    StableSort(s, [a \in 1..Len(s) |-> [b \in 1..Len(s) |-> keys[a] - keys[b]]])

----------------------------------------------------------------------------
(* Strings: String.prototype methods on the characters of a string *)

\* s.substring(m - 1, n)
Sub(s, m, n) == IF m > n THEN "" ELSE SubSeq(s, m, n)

Chars(s) == [i \in 1..Len(s) |-> SubSeq(s, i, i)]

UpperChars == Chars("ABCDEFGHIJKLMNOPQRSTUVWXYZ")

LowerChars == Chars("abcdefghijklmnopqrstuvwxyz")

LowerChar(c) ==
    IF \E i \in 1..26 : UpperChars[i] = c
    THEN LowerChars[CHOOSE i \in 1..26 : UpperChars[i] = c]
    ELSE c

RECURSIVE Unchars(_)
Unchars(cs) == IF cs = <<>> THEN "" ELSE cs[1] \o Unchars(Tail(cs))

ToLowerCase(s) == Unchars([i \in 1..Len(s) |-> LowerChar(SubSeq(s, i, i))])

IsSpace(c) == c = " "

Trim(s) ==
    LET cs == Chars(s)
        solid == {i \in 1..Len(s) : ~IsSpace(cs[i])}
    IN IF solid = {} THEN ""
       ELSE SubSeq(s, CHOOSE i \in solid : \A j \in solid : i <= j,
                      CHOOSE i \in solid : \A j \in solid : i >= j)

StartsWith(s, prefix) ==
    Len(prefix) <= Len(s) /\ SubSeq(s, 1, Len(prefix)) = prefix

Includes(s, part) ==
    \E i \in 1..(Len(s) - Len(part) + 1) : SubSeq(s, i, i + Len(part) - 1) = part

RECURSIVE Join(_, _)
Join(strs, sep) ==
    IF strs = <<>> THEN ""
    ELSE IF Len(strs) = 1 THEN strs[1]
    ELSE strs[1] \o sep \o Join(Tail(strs), sep)

----------------------------------------------------------------------------
(* The rendering collaborator: text layout and viewport of a page *)

It(s, x, y, w, h) == [str |-> s, x |-> x, y |-> y, width |-> w, height |-> h]

\* a viewport that ignores the zoom it is asked for
GetViewportUnit(page, s) == [scale |-> Q, height |-> page.height]

\* page.getViewport({ scale }) of an unrotated page whose box starts at the origin
GetViewport(page, s) == [scale |-> s, height |-> page.height]

\* viewport.convertToViewportPoint(x, y): the y axis is flipped, both axes scaled
ConvertToViewportPoint(vp, x, y) == <<x * vp.scale, (vp.height - y) * vp.scale>>

Docs == <<
  \* a two-page resume: sections out of order, a cramped gap, a short line
  << [height |-> 110, items |-> <<
        It("Experience", 5, 90, 30, 14),
        It("Intern", 5, 76, 20, 10),
        It("Fall", 40, 77, 10, 10),
        It("2023 - Present", 52, 76, 33, 10),
        It(" ", 0, 70, 2, 0),
        It("Built things", 5, 64, 30, 10),
        It("Education", 5, 52, 28, 10),
        It("B.S. Computer Science, Expected 2025", 5, 40, 70, 10) >>],
     [height |-> 110, items |-> <<
        It("Skills", 5, 90, 20, 12),
        It("Python", 5, 78, 60, 10),
        It("Summer 2022 to Fall 2022", 5, 66, 30, 10) >>] >>,
  \* a one-page resume without section headers
  << [height |-> 80, items |-> <<
        It("Jane Doe", 5, 70, 30, 16),
        It("Spring 2021", 5, 50, 25, 10),
        It("M.S. Physics", 5, 38, 40, 10) >>] >>
>>

----------------------------------------------------------------------------
(* Line clusterer: the bucket search every text analysis starts with *)

\* a bucket search that keeps the last key within the tolerance
FindBucketLast(lineMap, y) ==
    LET hits == {i \in 1..Len(lineMap) : Abs(lineMap[i].key - y) <= LINE_TOLERANCE_PTS}
    IN IF hits = {} THEN 0 ELSE CHOOSE i \in hits : \A j \in hits : i >= j

\* a bucket search that takes the nearest key within the tolerance
FindBucketNearest(lineMap, y) ==
    LET hits == {i \in 1..Len(lineMap) : Abs(lineMap[i].key - y) <= LINE_TOLERANCE_PTS}
    IN IF hits = {} THEN 0
       ELSE CHOOSE i \in hits :
                \A j \in hits : \/ Abs(lineMap[i].key - y) < Abs(lineMap[j].key - y)
                                 \/ (Abs(lineMap[i].key - y) = Abs(lineMap[j].key - y) /\ i <= j)

\* a bucket search that compares the item with the items of a bucket
FindBucketNear(lineMap, y) ==
    LET hits == {i \in 1..Len(lineMap) :
                    \E k \in 1..Len(lineMap[i].items) :
                        Abs(lineMap[i].items[k].y - y) <= LINE_TOLERANCE_PTS}
    IN IF hits = {} THEN 0 ELSE CHOOSE i \in hits : \A j \in hits : i <= j

\* for (const k of lineMap.keys()) if (Math.abs(k - y) <= LINE_TOLERANCE_PTS) { bucketKey = k; break }
\* lineMap is a Map in insertion order: a sequence of [key, items]; 0 stands for null
FindBucket(lineMap, y) ==
    LET hits == {i \in 1..Len(lineMap) : Abs(lineMap[i].key - y) <= LINE_TOLERANCE_PTS}
    IN IF hits = {} THEN 0 ELSE CHOOSE i \in hits : \A j \in hits : i <= j

\* one iteration of the grouping loop for a non-blank item
AddToLineMap(lineMap, y, entry) ==
    LET b == FindBucket(lineMap, y)
    IN IF b # 0
       THEN [lineMap EXCEPT ![b].items = Append(@, entry)]
       ELSE Append(lineMap, [key |-> y, items |-> <<entry>>])

\* the whole grouping loop; blank strings are skipped (`!str.trim()`)
RECURSIVE GroupLines(_, _, _)
GroupLines(lineMap, ys, entries) ==
    IF entries = <<>> THEN lineMap
    ELSE GroupLines(IF Trim(entries[1].str) = "" THEN lineMap
                    ELSE AddToLineMap(lineMap, ys[1], entries[1]),
                    Tail(ys), Tail(entries))

\* items.map(i => i.str).join(' ').toLowerCase().trim()
LineTextLower(items) ==
    Trim(ToLowerCase(Join([i \in 1..Len(items) |-> items[i].str], " ")))

ItemHeight(it) == IF it.height = 0 THEN DEFAULT_HEIGHT ELSE it.height

----------------------------------------------------------------------------
(* Line-utilization pass: the synchronous part of analyzeWhitespace that    *)
(* follows its two awaits, for a page and the zoom captured by the closure  *)

WHITESPACE_THRESHOLD == <<1, 4>>   \* 0.25 as a fraction

\* step 1: LineItem entries grouped by pdfY
WsLineMap(page, vp) ==
    LET items == page.items
        entries == [i \in 1..Len(items) |->
                      [pdfX |-> items[i].x,
                       pdfXRight |-> items[i].x + items[i].width,
                       screenY |-> ConvertToViewportPoint(vp, items[i].x, items[i].y)[2],
                       str |-> items[i].str,
                       height |-> ItemHeight(items[i])]]
    IN GroupLines(<<>>, [i \in 1..Len(items) |-> items[i].y], entries)

\* step 2: SECTION_KEYWORDS.some(kw => lineText.includes(kw)) && lineText.length < 60
WsIsHeader(items) ==
    LET lineText == LineTextLower(items)
    IN /\ \E k \in 1..Len(SECTION_KEYWORDS) : Includes(lineText, SECTION_KEYWORDS[k])
       /\ Len(lineText) < HEADER_MAX_LEN_WS

\* the indices of lineMap that are header lines
WsHeaders(lineMap) == {i \in 1..Len(lineMap) : WsIsHeader(lineMap[i].items)}

\* the smallest pdfY among the header lines: the header lowest on the page
LowestSectionPdfY(lineMap) ==
    LET hs == WsHeaders(lineMap)
    IN lineMap[CHOOSE i \in hs : \A j \in hs : lineMap[i].key <= lineMap[j].key].key

\* firstSectionPdfY: the largest pdfY among the header lines
FirstSectionPdfY(lineMap) ==
    LET hs == WsHeaders(lineMap)
    IN lineMap[CHOOSE i \in hs : \A j \in hs : lineMap[i].key >= lineMap[j].key].key

\* step 4: one screen line per relevant line
ScreenLine(line, vp) ==
    LET items == line.items
        n == Len(items)
        sorted == SortAsc(items, [i \in 1..n |-> items[i].pdfX])
    IN [pdfY |-> line.key,
        screenY |-> items[1].screenY,
        screenXLeft |-> SeqMin([i \in 1..n |->
                           ConvertToViewportPoint(vp, items[i].pdfX, line.key)[1]]),
        screenXRight |-> SeqMax([i \in 1..n |->
                           ConvertToViewportPoint(vp, items[i].pdfXRight, line.key)[1]]),
        lineText |-> Trim(Join([i \in 1..n |-> sorted[i].str], "")),
        \* avgHeight * scale, in quarter pixels, as a fraction
        lineHeight |-> <<SeqSum([i \in 1..n |-> items[i].height]) * vp.scale, n>>]

\* step 6: the indicator of one screen line
Indicator(line, xLeft, xRight) ==
    [x |-> line.screenXRight,
     y |-> line.screenY - 1 * Q,
     width |-> xRight - line.screenXRight,
     lineText |-> line.lineText,
     utilization |-> <<line.screenXRight - xLeft, xRight - xLeft>>,
     lineX |-> xLeft,
     lineHeight |-> line.lineHeight,
     pdfY |-> line.pdfY]

\* a flag test that also flags a line whose unused share equals the threshold
WsFlaggedAtLeast(line, xLeft, xRight) ==
    (xRight - line.screenXRight) * WHITESPACE_THRESHOLD[2]
        >= WHITESPACE_THRESHOLD[1] * (xRight - xLeft)

\* unused / fullWidth > WHITESPACE_THRESHOLD, for fullWidth > 0
WsFlagged(line, xLeft, xRight) ==
    (xRight - line.screenXRight) * WHITESPACE_THRESHOLD[2]
        > WHITESPACE_THRESHOLD[1] * (xRight - xLeft)

\* Steps 1-6.  commit is FALSE on the early returns, which leave the state alone.
WhitespaceResult(page, s) ==
    LET vp == GetViewport(page, s)
        lineMap == WsLineMap(page, vp)
        hs == WsHeaders(lineMap)
        first == FirstSectionPdfY(lineMap)
        relevant == SelectIdx(lineMap,
                      {i \in 1..Len(lineMap) : lineMap[i].key < first /\ i \notin hs})
        screenLines == [i \in 1..Len(relevant) |-> ScreenLine(relevant[i], vp)]
        xLeft == SeqMin([i \in 1..Len(screenLines) |-> screenLines[i].screenXLeft])
        xRight == SeqMax([i \in 1..Len(screenLines) |-> screenLines[i].screenXRight])
        flagged == SelectIdx(screenLines,
                     {i \in 1..Len(screenLines) : WsFlagged(screenLines[i], xLeft, xRight)})
    IN IF hs = {} THEN [commit |-> FALSE]
       ELSE IF relevant = <<>> THEN [commit |-> FALSE]
       ELSE IF xRight - xLeft <= 0 THEN [commit |-> FALSE]
       ELSE [commit |-> TRUE,
             indicators |-> [i \in 1..Len(flagged) |-> Indicator(flagged[i], xLeft, xRight)]]

----------------------------------------------------------------------------
(* Raster margin scanner: detectWhitespaceMargins and analyzeMargins *)

\* A canvas: physical size, CSS size (style.width / style.height, in quarter
\* pixels, 0 when unset), the RGBA bytes of getImageData, and what
\* getContext / getImageData do ("ok", "null": no 2d context, "throws")
MkCanvas(w, h, cssW, cssH, data, ctx) ==
    [width |-> w, height |-> h, cssWidth |-> cssW, cssHeight |-> cssH,
     data |-> data, ctx |-> ctx]

\* a whitespace test that lets a channel equal to the threshold pass
isWhitespaceAtLeast(data, idx) ==
    /\ data[idx + 1] >= NEAR_WHITE_THRESHOLD
    /\ data[idx + 2] >= NEAR_WHITE_THRESHOLD
    /\ data[idx + 3] >= NEAR_WHITE_THRESHOLD

\* isWhitespace(idx), idx a 0-based byte offset
isWhitespace(data, idx) ==
    /\ data[idx + 1] > NEAR_WHITE_THRESHOLD
    /\ data[idx + 2] > NEAR_WHITE_THRESHOLD
    /\ data[idx + 3] > NEAR_WHITE_THRESHOLD

\* the inner loop of topScan / bottomScan: does row y hold a non-whitespace pixel
RowHasInk(c, y) == \E x \in 0..(c.width - 1) : ~isWhitespace(c.data, (y * c.width + x) * 4)

\* the inner loop of leftScan / rightScan
ColHasInk(c, x) == \E y \in 0..(c.height - 1) : ~isWhitespace(c.data, (y * c.width + x) * 4)

\* let top = 0; topScan: for (y = 0; y < h; y++) ... { top = y; break topScan }
\* (the value of the loop: the first row with ink, or the initial 0)
ScanTop(c) ==
    LET first(rows) == IF rows = {} THEN 0 ELSE CHOOSE y \in rows : \A y2 \in rows : y <= y2
    IN first({y \in 0..(c.height - 1) : RowHasInk(c, y)})

\* let bottom = 0; bottomScan: for (y = h - 1; y >= 0; y--) ... { bottom = h - 1 - y; break }
ScanBottom(c) ==
    LET last(rows) == IF rows = {} THEN 0
                      ELSE c.height - 1 - (CHOOSE y \in rows : \A y2 \in rows : y >= y2)
    IN last({y \in 0..(c.height - 1) : RowHasInk(c, y)})

ScanLeft(c) ==
    LET first(cols) == IF cols = {} THEN 0 ELSE CHOOSE x \in cols : \A x2 \in cols : x <= x2
    IN first({x \in 0..(c.width - 1) : ColHasInk(c, x)})

ScanRight(c) ==
    LET last(cols) == IF cols = {} THEN 0
                      ELSE c.width - 1 - (CHOOSE x \in cols : \A x2 \in cols : x >= x2)
    IN last({x \in 0..(c.width - 1) : ColHasInk(c, x)})

NullMargins == [null |-> TRUE]

\* the value detectWhitespaceMargins returns
detectWhitespaceMargins(c) ==
    IF c.ctx # "ok" THEN NullMargins
    ELSE [null |-> FALSE, top |-> ScanTop(c), bottom |-> ScanBottom(c),
          left |-> ScanLeft(c), right |-> ScanRight(c)]

\* the MarginData analyzeMargins stores for a canvas whose scan succeeded:
\* margins / pixelRatio as fractions of quarter pixels
MarginDataOf(c, margins) ==
    LET physWidth == c.width
        cssWidth == IF c.cssWidth = 0 THEN physWidth * Q ELSE c.cssWidth
        physHeight == c.height
        cssHeight == IF c.cssHeight = 0 THEN physHeight * Q ELSE c.cssHeight
    IN [present |-> TRUE,
        top |-> <<margins.top * cssWidth, physWidth>>,
        bottom |-> <<margins.bottom * cssWidth, physWidth>>,
        left |-> <<margins.left * cssWidth, physWidth>>,
        right |-> <<margins.right * cssWidth, physWidth>>,
        pageWidth |-> cssWidth,
        pageHeight |-> cssHeight]

White == <<255, 255, 255, 255>>

Ink == <<0, 0, 0, 255>>

\* data of a w x h raster that is white except for the pixels of dark,
\* a function from a set of 0-based pixel indices to RGBA colours
RasterData(w, h, bg, dark) ==
    [k \in 1..(w * h * 4) |->
        LET px == (k - 1) \div 4
            ch == ((k - 1) % 4) + 1
        IN IF px \in DOMAIN dark THEN dark[px][ch] ELSE bg[ch]]

\* The raster react-pdf paints for a page at a zoom (device pixel ratio =
\* index of the document): a square of scale * dpr pixels, white but for one
\* ink pixel whose place depends on the page
RasterOf(d, p, s) ==
    LET dpr == d
        w == s * dpr
        inkAt == (p * w) + p
    IN MkCanvas(w, w, s * Q, s * Q, RasterData(w, w, White, (inkAt :> Ink)), "ok")

----------------------------------------------------------------------------
(* Section segmenter: analyzeSectionSpacing, analyzeSectionOrder,          *)
(* analyzeSectionTitleSize, one page at a time                             *)

EXPECTED_SECTION_ORDER == <<"education", "experience", "projects", "leadership", "skills">>

\* the record literal, in insertion order (the order of Object.keys)
SECTION_KEYWORD_TO_CANONICAL == <<
    <<"education", "Education">>,
    <<"experience", "Experience">>,
    <<"academic projects", "Projects">>,
    <<"projects", "Projects">>,
    <<"leadership", "Leadership">>,
    <<"activities", "Leadership">>,
    <<"technical skills", "Skills">>,
    <<"skills", "Skills">> >>

SPACING_THRESHOLD_PTS == 9   \* (1 / 8) * 72

BODY_HEIGHT_MIN == 5

BODY_HEIGHT_MAX == 30

TITLE_SIZE_MARGIN == 1

\* TItem entries { str, x, y, width, height || 12 } grouped by y
TItemLineMap(page) ==
    LET items == page.items
        entries == [i \in 1..Len(items) |-> [items[i] EXCEPT !.height = ItemHeight(items[i])]]
    IN GroupLines(<<>>, [i \in 1..Len(items) |-> items[i].y], entries)

\* Array.from(lineMap.entries()).sort((a, b) => b[0] - a[0])
SortTopToBottom(lineMap) == SortAsc(lineMap, [i \in 1..Len(lineMap) |-> -lineMap[i].key])

\* SECTION_KEYWORDS.some(kw => lineText.startsWith(kw)) && lineText.length < 40
IsHeaderLine(items) ==
    LET lineText == LineTextLower(items)
    IN /\ \E k \in 1..Len(SECTION_KEYWORDS) : StartsWith(lineText, SECTION_KEYWORDS[k])
       /\ Len(lineText) < HEADER_MAX_LEN

MaxHeight(items) == SeqMax([i \in 1..Len(items) |-> items[i].height])

\* the ClutterIssue of a pair when a gap of the threshold itself counts as cramped
SpacingIssueOfInclusive(pageNum, vp, allLines, h1, h2) ==
    LET between == SelectIdx(allLines, {i \in 1..Len(allLines) :
                      allLines[i].key < h1.key /\ allLines[i].key > h2.key})
        lastLineY == between[Len(between)].key
        header2Height == IF MaxHeight(h2.items) = 0 THEN DEFAULT_HEIGHT ELSE MaxHeight(h2.items)
        gap == lastLineY - h2.key - header2Height
        allItems == Flatten([i \in 1..Len(allLines) |-> allLines[i].items])
        contentXMin == SeqMin([i \in 1..Len(allItems) |-> allItems[i].x])
        contentXMax == SeqMax([i \in 1..Len(allItems) |-> allItems[i].x + allItems[i].width])
        baseX == ConvertToViewportPoint(vp, contentXMin, 0)[1]
        baseXMax == ConvertToViewportPoint(vp, contentXMax, 0)[1]
        topOfGap == ConvertToViewportPoint(vp, 0, lastLineY)[2]
        bottomOfGap == ConvertToViewportPoint(vp, 0, h2.key + header2Height)[2]
    IN IF between = <<>> THEN <<>>
       ELSE IF gap <= SPACING_THRESHOLD_PTS
       THEN << [page |-> pageNum,
                baseY |-> bottomOfGap,
                baseHeight |-> topOfGap - bottomOfGap,
                baseX |-> baseX,
                baseWidth |-> baseXMax - baseX,
                section1 |-> Join([i \in 1..Len(h1.items) |-> h1.items[i].str], ""),
                section2 |-> Join([i \in 1..Len(h2.items) |-> h2.items[i].str], ""),
                pdfY |-> h2.key] >>
       ELSE <<>>

\* the ClutterIssue of the header pair (h1, h2) of a page, or none
SpacingIssueOf(pageNum, vp, allLines, h1, h2) ==
    LET between == SelectIdx(allLines, {i \in 1..Len(allLines) :
                      allLines[i].key < h1.key /\ allLines[i].key > h2.key})
        lastLineY == between[Len(between)].key
        header2Height == IF MaxHeight(h2.items) = 0 THEN DEFAULT_HEIGHT ELSE MaxHeight(h2.items)
        gap == lastLineY - h2.key - header2Height
        allItems == Flatten([i \in 1..Len(allLines) |-> allLines[i].items])
        contentXMin == SeqMin([i \in 1..Len(allItems) |-> allItems[i].x])
        contentXMax == SeqMax([i \in 1..Len(allItems) |-> allItems[i].x + allItems[i].width])
        baseX == ConvertToViewportPoint(vp, contentXMin, 0)[1]
        baseXMax == ConvertToViewportPoint(vp, contentXMax, 0)[1]
        topOfGap == ConvertToViewportPoint(vp, 0, lastLineY)[2]
        bottomOfGap == ConvertToViewportPoint(vp, 0, h2.key + header2Height)[2]
    IN IF between = <<>> THEN <<>>
       ELSE IF gap < SPACING_THRESHOLD_PTS
       THEN << [page |-> pageNum,
                baseY |-> bottomOfGap,
                baseHeight |-> topOfGap - bottomOfGap,
                baseX |-> baseX,
                baseWidth |-> baseXMax - baseX,
                section1 |-> Join([i \in 1..Len(h1.items) |-> h1.items[i].str], ""),
                section2 |-> Join([i \in 1..Len(h2.items) |-> h2.items[i].str], ""),
                pdfY |-> h2.key] >>
       ELSE <<>>

\* the issues analyzeSectionSpacing pushes for one page
SectionSpacingPage(pageNum, page, s) ==
    LET vp == GetViewport(page, s)
        allLines == SortTopToBottom(TItemLineMap(page))
        sectionHeaders == SelectIdx(allLines,
                            {i \in 1..Len(allLines) : IsHeaderLine(allLines[i].items)})
    IN IF Len(sectionHeaders) < 2 THEN <<>>
       ELSE Flatten([i \in 1..(Len(sectionHeaders) - 1) |->
                SpacingIssueOf(pageNum, vp, allLines, sectionHeaders[i], sectionHeaders[i + 1])])

\* Object.keys(SECTION_KEYWORD_TO_CANONICAL).sort((a, b) => b.length - a.length)
KeywordsLongestFirst ==
    SortAsc(SECTION_KEYWORD_TO_CANONICAL,
            [i \in 1..Len(SECTION_KEYWORD_TO_CANONICAL) |-> -Len(SECTION_KEYWORD_TO_CANONICAL[i][1])])

\* .find(kw => lineText.startsWith(kw) && lineText.length < 40): index or 0
MatchedKeyword(lineText) ==
    LET hits == {k \in 1..Len(KeywordsLongestFirst) :
                    StartsWith(lineText, KeywordsLongestFirst[k][1]) /\ Len(lineText) < HEADER_MAX_LEN}
    IN IF hits = {} THEN 0 ELSE CHOOSE k \in hits : \A j \in hits : k <= j

\* the loop body without the test for a section found before
OrderAddLineAgain(sectionsFound, pageNum, vp, line) ==
    LET k == MatchedKeyword(LineTextLower(line.items))
        display == KeywordsLongestFirst[k][2]
        canonical == ToLowerCase(display)
        n == Len(line.items)
        sortedItems == SortAsc(line.items, [i \in 1..n |-> line.items[i].x])
        pt == ConvertToViewportPoint(vp, sortedItems[1].x, line.key)
        baseXRight == ConvertToViewportPoint(vp, sortedItems[n].x + sortedItems[n].width, line.key)[1]
        height == IF MaxHeight(line.items) = 0 THEN DEFAULT_HEIGHT ELSE MaxHeight(line.items)
    IN IF k = 0 THEN sectionsFound
       ELSE IF \A e \in 1..Len(EXPECTED_SECTION_ORDER) : EXPECTED_SECTION_ORDER[e] # canonical
       THEN sectionsFound
       ELSE Append(sectionsFound,
                [canonical |-> canonical, display |-> display, page |-> pageNum, pdfY |-> line.key,
                 baseX |-> pt[1], baseY |-> pt[2] - height * Q,
                 baseWidth |-> baseXRight - pt[1], baseHeight |-> height * Q])

\* the loop body over allLines of one page: sectionsFound after the line
OrderAddLine(sectionsFound, pageNum, vp, line) ==
    LET k == MatchedKeyword(LineTextLower(line.items))
        display == KeywordsLongestFirst[k][2]
        canonical == ToLowerCase(display)
        n == Len(line.items)
        sortedItems == SortAsc(line.items, [i \in 1..n |-> line.items[i].x])
        pt == ConvertToViewportPoint(vp, sortedItems[1].x, line.key)
        baseXRight == ConvertToViewportPoint(vp, sortedItems[n].x + sortedItems[n].width, line.key)[1]
        height == IF MaxHeight(line.items) = 0 THEN DEFAULT_HEIGHT ELSE MaxHeight(line.items)
    IN IF k = 0 THEN sectionsFound
       ELSE IF \A e \in 1..Len(EXPECTED_SECTION_ORDER) : EXPECTED_SECTION_ORDER[e] # canonical
       THEN sectionsFound
       ELSE IF \E i \in 1..Len(sectionsFound) : sectionsFound[i].canonical = canonical
       THEN sectionsFound
       ELSE Append(sectionsFound,
                [canonical |-> canonical, display |-> display, page |-> pageNum, pdfY |-> line.key,
                 baseX |-> pt[1], baseY |-> pt[2] - height * Q,
                 baseWidth |-> baseXRight - pt[1], baseHeight |-> height * Q])

\* sectionsFound after one more page
SectionOrderPage(sectionsFound, pageNum, page, s) ==
    LET vp == GetViewport(page, s)
        allLines == SortTopToBottom(TItemLineMap(page))
        RECURSIVE go(_, _)
        go(found, i) == IF i > Len(allLines) THEN found
                        ELSE go(OrderAddLine(found, pageNum, vp, allLines[i]), i + 1)
    IN go(sectionsFound, 1)

\* expectedOrder without its .map: the keys of EXPECTED_SECTION_ORDER as they are
CanonicalOfKey(c) == c

\* SECTION_KEYWORD_TO_CANONICAL[c]
CanonicalOf(c) ==
    SECTION_KEYWORD_TO_CANONICAL[
        CHOOSE i \in 1..Len(SECTION_KEYWORD_TO_CANONICAL) : SECTION_KEYWORD_TO_CANONICAL[i][1] = c][2]

\* What analyzeSectionOrder does after its page loop: commit is FALSE on the
\* early returns
SectionOrderResult(sectionsFound) ==
    LET n == Len(sectionsFound)
        present == SelectIdx(EXPECTED_SECTION_ORDER, {e \in 1..Len(EXPECTED_SECTION_ORDER) :
                      \E i \in 1..n : sectionsFound[i].canonical = EXPECTED_SECTION_ORDER[e]})
        expectedOrder == [i \in 1..Len(present) |-> CanonicalOf(present[i])]
        foundOrder == [i \in 1..n |-> sectionsFound[i].display]
        wrong == {i \in 1..n : i > Len(expectedOrder) \/ foundOrder[i] # expectedOrder[i]}
        firstMisplacedIdx == CHOOSE i \in wrong : \A j \in wrong : i <= j
        mis == sectionsFound[firstMisplacedIdx]
    IN IF n < 2 THEN [commit |-> FALSE]
       ELSE IF wrong = {} THEN [commit |-> FALSE]
       ELSE [commit |-> TRUE,
             issues |-> << [foundOrder |-> foundOrder, expectedOrder |-> expectedOrder,
                            page |-> mis.page, pdfY |-> mis.pdfY,
                            baseX |-> mis.baseX, baseY |-> mis.baseY,
                            baseWidth |-> mis.baseWidth, baseHeight |-> mis.baseHeight] >>]

\* the pass with the lower of the two middle elements as the median
SectionTitleSizePageLower(pageNum, page, s) ==
    LET vp == GetViewport(page, s)
        lineMap == TItemLineMap(page)
        hs == {i \in 1..Len(lineMap) : IsHeaderLine(lineMap[i].items)}
        headerLines == SelectIdx(lineMap, hs)
        bodyItems == Flatten([i \in 1..Len(lineMap) |->
                        IF i \in hs THEN <<>> ELSE lineMap[i].items])
        bodyHeights == SelectIdx([i \in 1..Len(bodyItems) |-> bodyItems[i].height],
                          {i \in 1..Len(bodyItems) :
                              bodyItems[i].height > BODY_HEIGHT_MIN /\ bodyItems[i].height < BODY_HEIGHT_MAX})
        sortedHeights == SortAsc(bodyHeights, bodyHeights)
        medianBodyHeight == sortedHeights[((Len(sortedHeights) - 1) \div 2) + 1]
        issue(h) ==
            LET n == Len(h.items)
                sortedItems == SortAsc(h.items, [i \in 1..n |-> h.items[i].x])
                pt == ConvertToViewportPoint(vp, sortedItems[1].x, h.key)
                baseXRight == ConvertToViewportPoint(vp, sortedItems[n].x + sortedItems[n].width, h.key)[1]
            IN [sectionName |-> Trim(Join([i \in 1..n |-> h.items[i].str], " ")),
                page |-> pageNum, pdfY |-> h.key,
                baseX |-> pt[1], baseY |-> pt[2] - MaxHeight(h.items) * Q,
                baseWidth |-> baseXRight - pt[1], baseHeight |-> MaxHeight(h.items) * Q]
    IN IF bodyHeights = <<>> \/ headerLines = <<>> THEN <<>>
       ELSE LET flagged == SelectIdx(headerLines, {i \in 1..Len(headerLines) :
                              MaxHeight(headerLines[i].items) <= medianBodyHeight + TITLE_SIZE_MARGIN})
            IN [i \in 1..Len(flagged) |-> issue(flagged[i])]

\* the issues analyzeSectionTitleSize pushes for one page
SectionTitleSizePage(pageNum, page, s) ==
    LET vp == GetViewport(page, s)
        lineMap == TItemLineMap(page)
        hs == {i \in 1..Len(lineMap) : IsHeaderLine(lineMap[i].items)}
        headerLines == SelectIdx(lineMap, hs)
        bodyItems == Flatten([i \in 1..Len(lineMap) |->
                        IF i \in hs THEN <<>> ELSE lineMap[i].items])
        bodyHeights == SelectIdx([i \in 1..Len(bodyItems) |-> bodyItems[i].height],
                          {i \in 1..Len(bodyItems) :
                              bodyItems[i].height > BODY_HEIGHT_MIN /\ bodyItems[i].height < BODY_HEIGHT_MAX})
        sortedHeights == SortAsc(bodyHeights, bodyHeights)
        medianBodyHeight == sortedHeights[(Len(sortedHeights) \div 2) + 1]
        issue(h) ==
            LET n == Len(h.items)
                sortedItems == SortAsc(h.items, [i \in 1..n |-> h.items[i].x])
                pt == ConvertToViewportPoint(vp, sortedItems[1].x, h.key)
                baseXRight == ConvertToViewportPoint(vp, sortedItems[n].x + sortedItems[n].width, h.key)[1]
            IN [sectionName |-> Trim(Join([i \in 1..n |-> h.items[i].str], " ")),
                page |-> pageNum, pdfY |-> h.key,
                baseX |-> pt[1], baseY |-> pt[2] - MaxHeight(h.items) * Q,
                baseWidth |-> baseXRight - pt[1], baseHeight |-> MaxHeight(h.items) * Q]
    IN IF bodyHeights = <<>> \/ headerLines = <<>> THEN <<>>
       ELSE LET flagged == SelectIdx(headerLines, {i \in 1..Len(headerLines) :
                              MaxHeight(headerLines[i].items) <= medianBodyHeight + TITLE_SIZE_MARGIN})
            IN [i \in 1..Len(flagged) |-> issue(flagged[i])]

----------------------------------------------------------------------------
(* Regular expressions of the pattern detectors, on the characters of a    *)
(* string; positions are 1-based, Len(s) + 1 is the end of the string      *)

Digits == {"0", "1", "2", "3", "4", "5", "6", "7", "8", "9"}

Letters == {UpperChars[i] : i \in 1..26} \cup {LowerChars[i] : i \in 1..26}

WordChars == Letters \cup Digits \cup {"_"}

CharAt(s, p) == IF p >= 1 /\ p <= Len(s) THEN SubSeq(s, p, p) ELSE ""

\* \b at position p: exactly one of the characters before and at p is a word character
WordBoundary(s, p) == (CharAt(s, p - 1) \in WordChars) # (CharAt(s, p) \in WordChars)

\* a literal matched at p under the i flag
MatchesCI(s, p, word) ==
    /\ p + Len(word) - 1 <= Len(s)
    /\ ToLowerCase(SubSeq(s, p, p + Len(word) - 1)) = ToLowerCase(word)

\* the number of characters of class cls from position p on
RunLength(s, p, cls) ==
    LET RECURSIVE go(_)
        go(q) == IF CharAt(s, q) \in cls THEN 1 + go(q + 1) ELSE 0
    IN go(p)

SEASONS == <<"Spring", "Fall", "Summer", "Winter">>

SEASON_TO_MONTH == <<
    <<"spring", "May">>, <<"fall", "December">>, <<"summer", "August">>, <<"winter", "December">> >>

SeasonMonth(season) ==
    SEASON_TO_MONTH[CHOOSE i \in 1..Len(SEASON_TO_MONTH) :
                        SEASON_TO_MONTH[i][1] = ToLowerCase(season)][2]

YEAR_DIGITS == 4

\* (Spring|Fall|Summer|Winter) at p under the i flag: index of the alternative or 0
SeasonAt(s, p) ==
    LET hits == {k \in 1..Len(SEASONS) : MatchesCI(s, p, SEASONS[k])}
    IN IF hits = {} THEN 0 ELSE CHOOSE k \in hits : \A j \in hits : k <= j

\* /\b(Spring|Fall|Summer|Winter)\s+(\d{4})\b/i anchored at p: the position
\* after the match, or 0
FullSeasonAt(s, p) ==
    LET k == SeasonAt(s, p)
        q == p + Len(SEASONS[k])
        sp == RunLength(s, q, {" "})
        r == q + sp
    IN IF k = 0 \/ ~WordBoundary(s, p) THEN 0
       ELSE IF sp < 1 THEN 0
       ELSE IF RunLength(s, r, Digits) < YEAR_DIGITS THEN 0
       ELSE IF ~WordBoundary(s, r + YEAR_DIGITS) THEN 0
       ELSE r + YEAR_DIGITS

\* the groups m[1], m[2] of a match of the expression above at p
FullSeasonGroups(s, p) ==
    LET k == SeasonAt(s, p)
        q == p + Len(SEASONS[k])
        r == q + RunLength(s, q, {" "})
    IN <<SubSeq(s, p, q - 1), SubSeq(s, r, r + YEAR_DIGITS - 1)>>

\* the while ((m = fullRe.exec(str)) !== null) loop under the g flag: the
\* the expression without its g flag: the first match only
FullSeasonMatchesFirst(s) ==
    LET first(hits) == IF hits = {} THEN <<>>
                       ELSE <<CHOOSE x \in hits : \A y \in hits : x <= y>>
    IN first({p \in 1..Len(s) : FullSeasonAt(s, p) # 0})

\* start positions of the successive matches
FullSeasonMatches(s) ==
    LET RECURSIVE go(_)
        leftmost(hits) == CHOOSE x \in hits : \A y \in hits : x <= y
        next(hits) ==
            IF hits = {} THEN <<>>
            ELSE <<leftmost(hits)>> \o go(FullSeasonAt(s, leftmost(hits)))
        go(from) == next({p \in from..Len(s) : FullSeasonAt(s, p) # 0})
    IN go(1)

\* str.match(/\b(Spring|Fall|Summer|Winter)\s*$/i): the group, or "" for null
TrailingSeason(s) ==
    LET ok(p) == /\ WordBoundary(s, p)
                 /\ SeasonAt(s, p) # 0
                 /\ LET q == p + Len(SEASONS[SeasonAt(s, p)])
                    IN q + RunLength(s, q, {" "}) = Len(s) + 1
        hits == {p \in 1..Len(s) : ok(p)}
        p == CHOOSE x \in hits : \A y \in hits : x <= y
    IN IF hits = {} THEN "" ELSE SubSeq(s, p, p + Len(SEASONS[SeasonAt(s, p)]) - 1)

\* str.match(/^(\d{4})\b/): the group, or "" for null
LeadingYear(s) ==
    IF RunLength(s, 1, Digits) >= YEAR_DIGITS /\ WordBoundary(s, YEAR_DIGITS + 1)
    THEN SubSeq(s, 1, YEAR_DIGITS) ELSE ""

LOOKAHEAD == 4   \* j < Math.min(i + 4, items.length)

\* items of a page as the pattern detectors keep them: blank strings dropped,
\* height || 12
PatternItems(page) ==
    LET items == page.items
        kept == SelectIdx(items, {i \in 1..Len(items) : Trim(items[i].str) # ""})
    IN [i \in 1..Len(kept) |-> [kept[i] EXCEPT !.height = ItemHeight(kept[i])]]

\* pushIssue
SeasonIssueOf(pageNum, vp, season, year, startItem, endItem) ==
    LET pt == ConvertToViewportPoint(vp, startItem.x, startItem.y)
        baseXRight == ConvertToViewportPoint(vp, endItem.x + endItem.width, endItem.y)[1]
        h == ItemHeight(startItem)
    IN [season |-> season, year |-> year, suggestedMonth |-> SeasonMonth(season),
        page |-> pageNum,
        baseX |-> pt[1], baseY |-> pt[2] - h * Q,
        baseWidth |-> baseXRight - pt[1], baseHeight |-> h * Q,
        pdfY |-> startItem.y]

\* the lookahead of Case 2 cut down to the item that follows
YearIdxNext(items, i) ==
    IF i + 1 <= Len(items) /\ LeadingYear(items[i + 1].str) # "" THEN i + 1 ELSE 0

\* the first j of the lookahead window whose string starts with a year, or 0
YearIdx(items, i) ==
    LET js == {j \in (i + 1)..(Min2(i + LOOKAHEAD, Len(items) + 1) - 1) :
                  LeadingYear(items[j].str) # ""}
    IN IF js = {} THEN 0 ELSE CHOOSE j \in js : \A j2 \in js : j <= j2

\* the issues analyzeSeasonDates pushes for one page
SeasonDatesPage(pageNum, page, s) ==
    LET vp == GetViewport(page, s)
        items == PatternItems(page)
        n == Len(items)
        issueOf(item, g) == SeasonIssueOf(pageNum, vp, g[1], g[2], item, item)
        issuesAt(item, ms1) ==
            [k \in 1..Len(ms1) |-> issueOf(item, FullSeasonGroups(item.str, ms1[k]))]
        case1(i) == issuesAt(items[i], FullSeasonMatches(items[i].str))
        RECURSIVE go(_, _), scan(_, _, _, _, _)
        \* full: the issues of Case 1; season, j: the trailing season and the
        \* item of its year of Case 2
        scan(i, matched, full, season, j) ==
            IF full # <<>> THEN full \o go(i + 1, matched \cup {i})
            ELSE IF season # "" /\ j # 0
            THEN <<SeasonIssueOf(pageNum, vp, season, LeadingYear(items[j].str),
                                 items[i], items[j])>>
                 \o go(i + 1, matched \cup {i, j})
            ELSE go(i + 1, matched)
        go(i, matched) ==
            IF i > n THEN <<>>
            ELSE IF i \in matched THEN go(i + 1, matched)
            ELSE scan(i, matched, case1(i), TrailingSeason(items[i].str), YearIdx(items, i))
    IN go(1, {})

----------------------------------------------------------------------------
(* Degree-abbreviation detector *)

El(cls, lo, hi) == [cls |-> cls, min |-> lo, max |-> hi]

\* abbrevRe as the sequence of its quantified character classes; every
\* abbrevRe starts with \b and ends with the lookahead (?![a-zA-Z])
DEGREE_CHECKS == <<
    [abbrevRe |-> <<El({"B"}, 1, 1), El({"."}, 0, 1), El({"S", "s"}, 1, 1), El({"c"}, 0, 1), El({"."}, 0, 3)>>,
     fullRe |-> "Bachelor of Science", fullLabel |-> "Bachelor of Science"],
    [abbrevRe |-> <<El({"B"}, 1, 1), El({"."}, 0, 1), El({"A", "a"}, 1, 1), El({"."}, 0, 2)>>,
     fullRe |-> "Bachelor of Arts", fullLabel |-> "Bachelor of Arts"],
    [abbrevRe |-> <<El({"M"}, 1, 1), El({"."}, 0, 1), El({"S", "s"}, 1, 1), El({"c"}, 0, 1), El({"."}, 0, 2)>>,
     fullRe |-> "Master of Science", fullLabel |-> "Master of Science"],
    [abbrevRe |-> <<El({"P"}, 1, 1), El({"h"}, 1, 1), El({"."}, 0, 1), El({"D"}, 1, 1), El({"."}, 0, 2)>>,
     fullRe |-> "Doctor of Philosophy", fullLabel |-> "Doctor of Philosophy"],
    [abbrevRe |-> <<El({"M"}, 1, 1), El({"."}, 0, 1), El({"B"}, 1, 1), El({"."}, 0, 1), El({"A"}, 1, 1), El({"."}, 0, 2)>>,
     fullRe |-> "Master of Business Administration", fullLabel |-> "Master of Business Administration"] >>

\* Greedy, backtracking match of the elements pat[k..] at position p, then the
\* lookahead: the position after the match, or 0
RECURSIVE PatFrom(_, _, _, _), PatTry(_, _, _, _, _)
PatFrom(s, p, pat, k) ==
    IF k > Len(pat) THEN (IF CharAt(s, p) \in Letters THEN 0 ELSE p)
    ELSE PatTry(s, p, pat, k, Min2(pat[k].max, RunLength(s, p, pat[k].cls)))

PatTry(s, p, pat, k, c) ==
    IF c < pat[k].min THEN 0
    ELSE IF PatFrom(s, p + c, pat, k + 1) # 0 THEN PatFrom(s, p + c, pat, k + 1)
    ELSE PatTry(s, p, pat, k, c - 1)

\* abbrevRe.exec(str): <<start, end + 1>> of the leftmost match, or <<0, 0>>
AbbrevExec(s, pat) ==
    LET hits == {p \in 1..Len(s) : WordBoundary(s, p) /\ PatFrom(s, p, pat, 1) # 0}
        p == CHOOSE x \in hits : \A y \in hits : x <= y
    IN IF hits = {} THEN <<0, 0>> ELSE <<p, PatFrom(s, p, pat, 1)>>

\* the test without the i flag
FullTestCased(text, phrase) ==
    \E p \in 1..Len(text) :
        /\ WordBoundary(text, p)
        /\ p + Len(phrase) - 1 <= Len(text)
        /\ SubSeq(text, p, p + Len(phrase) - 1) = phrase
        /\ WordBoundary(text, p + Len(phrase))

\* fullRe.test(text): /\b<phrase>\b/i
FullTest(text, phrase) ==
    \E p \in 1..Len(text) :
        /\ WordBoundary(text, p)
        /\ MatchesCI(text, p, phrase)
        /\ WordBoundary(text, p + Len(phrase))

\* .replace(new RegExp(escapedAbbrev + '[.,\\s]*'), ''): the first occurrence of
\* the abbreviation and the punctuation / blanks after it are removed
StripAbbrev(text, abbreviated) ==
    LET hits == {p \in 1..Len(text) : /\ p + Len(abbreviated) - 1 <= Len(text)
                                      /\ SubSeq(text, p, p + Len(abbreviated) - 1) = abbreviated}
        p == CHOOSE x \in hits : \A y \in hits : x <= y
        e == p + Len(abbreviated)
        e2 == e + RunLength(text, e, {".", ",", " "})
    IN IF hits = {} THEN text
       ELSE Sub(text, 1, p - 1) \o Sub(text, e2, Len(text))

BOILERPLATE == <<"Graduating", "Expected", "GPA", "University", "College">>

\* .replace(/(Graduating|Expected|GPA|University|College|\b\d{4}\b).*$/i, '')
StripBoilerplate(text) ==
    LET at(p) == \/ \E k \in 1..Len(BOILERPLATE) : MatchesCI(text, p, BOILERPLATE[k])
                 \/ /\ WordBoundary(text, p)
                    /\ RunLength(text, p, Digits) >= YEAR_DIGITS
                    /\ WordBoundary(text, p + YEAR_DIGITS)
        hits == {p \in 1..Len(text) : at(p)}
    IN IF hits = {} THEN text
       ELSE Sub(text, 1, (CHOOSE x \in hits : \A y \in hits : x <= y) - 1)

\* .replace(/^[,\s]+/, '')
StripLeading(text) == Sub(text, 1 + RunLength(text, 1, {",", " "}), Len(text))

\* the DegreeIssue for check and the item items[i] that matches its abbrevRe
DegreeIssueOf(pageNum, vp, items, i, check) ==
    LET m == AbbrevExec(items[i].str, check.abbrevRe)
        abbreviated == SubSeq(items[i].str, m[1], m[2] - 1)
        sameLine == SelectIdx(items, {j \in 1..Len(items) :
                        Abs(items[j].y - items[i].y) <= LINE_TOLERANCE_PTS})
        sorted == SortAsc(sameLine, [j \in 1..Len(sameLine) |-> sameLine[j].x])
        lineText == Trim(Join([j \in 1..Len(sorted) |-> sorted[j].str], " "))
        field == Trim(StripLeading(StripBoilerplate(StripAbbrev(lineText, abbreviated))))
        suggested == IF field # "" THEN check.fullLabel \o " in " \o field ELSE check.fullLabel
        pt == ConvertToViewportPoint(vp, items[i].x, items[i].y)
        baseXRight == ConvertToViewportPoint(vp, items[i].x + items[i].width, items[i].y)[1]
        h == ItemHeight(items[i])
    IN [abbreviated |-> abbreviated, suggested |-> suggested, page |-> pageNum,
        baseX |-> pt[1], baseY |-> pt[2] - h * Q,
        baseWidth |-> baseXRight - pt[1], baseHeight |-> h * Q,
        pdfY |-> items[i].y]

\* the issues analyzeDegreeAbbreviations pushes for one page
DegreePage(pageNum, page, s) ==
    LET vp == GetViewport(page, s)
        items == PatternItems(page)
        fullText == Join([i \in 1..Len(items) |-> items[i].str], " ")
        forCheck(check) ==
            LET hits == {i \in 1..Len(items) : AbbrevExec(items[i].str, check.abbrevRe)[1] # 0}
            IN IF FullTest(fullText, check.fullRe) \/ hits = {} THEN <<>>
               ELSE <<DegreeIssueOf(pageNum, vp, items,
                          CHOOSE i \in hits : \A j \in hits : i <= j, check)>>
    IN Flatten([c \in 1..Len(DEGREE_CHECKS) |-> forCheck(DEGREE_CHECKS[c])])

----------------------------------------------------------------------------
(* Aggregator: the allSolutions memo *)

\* issues.map((iss, i) => ({ type, key: `${type}-${i}`, page, pdfY, data })),
\* pages[i] the page of issues[i]
Keyed(type, issues, pages) ==
    [i \in 1..Len(issues) |->
        [type |-> type, key |-> type \o "-" \o ToString(i - 1),
         page |-> pages[i], pdfY |-> issues[i].pdfY, data |-> issues[i]]]

\* iss.page of every issue of a list
PagesOf(issues) == [i \in 1..Len(issues) |-> issues[i].page]

\* a comparator that orders a page bottom to top
SolutionCmpAsc(a, b) == IF a.page # b.page THEN a.page - b.page ELSE a.pdfY - b.pdfY

\* the comparator of combined.sort
SolutionCmp(a, b) == IF a.page # b.page THEN a.page - b.page ELSE b.pdfY - a.pdfY

Combined ==
    Keyed("degree", degreeIssues, PagesOf(degreeIssues))
    \o Keyed("season", seasonIssues, PagesOf(seasonIssues))
    \o Keyed("whitespace", whitespaceIndicators,
             [i \in 1..Len(whitespaceIndicators) |-> pageNumber])
    \o Keyed("clutter", clutterIssues, PagesOf(clutterIssues))
    \o Keyed("sectionOrder", sectionOrderIssues, PagesOf(sectionOrderIssues))
    \o Keyed("sectionSize", sectionSizeIssues, PagesOf(sectionSizeIssues))

allSolutions ==
    LET combined == Combined
        n == Len(combined)
    IN StableSort(combined,
                  [a \in 1..n |-> [b \in 1..n |-> SolutionCmp(combined[a], combined[b])]])

----------------------------------------------------------------------------
(* The component: React state, the handlers, and the asynchronous passes *)

Detectors == {"season", "degree", "clutter", "sectionOrder", "sectionSize"}

\* page.getViewport({ scale: 1 }) of the document-wide detectors
DocViewportScale == Q

ZoomSet == {ZOOM_LEVELS[i] : i \in 1..Len(ZOOM_LEVELS)}

\* The pure results of the passes on the pages of Docs, computed once:
\* what a pass computes depends on its inputs only.
WsResults ==
    [d \in 1..Len(Docs) |-> [p \in 1..Len(Docs[d]) |-> [s \in ZoomSet |->
        WhitespaceResult(Docs[d][p], s)]]]

PageFindings ==
    [d \in 1..Len(Docs) |-> [p \in 1..Len(Docs[d]) |->
        [season |-> SeasonDatesPage(p, Docs[d][p], DocViewportScale),
         degree |-> DegreePage(p, Docs[d][p], DocViewportScale),
         clutter |-> SectionSpacingPage(p, Docs[d][p], DocViewportScale),
         sectionSize |-> SectionTitleSizePage(p, Docs[d][p], DocViewportScale)]]]

Rasters ==
    [d \in 1..Len(Docs) |-> [p \in 1..Len(Docs[d]) |-> [s \in ZoomSet |-> RasterOf(d, p, s)]]]

RasterMargins ==
    [d \in 1..Len(Docs) |-> [p \in 1..Len(Docs[d]) |-> [s \in ZoomSet |->
        detectWhitespaceMargins(Rasters[d][p][s])]]]

ThePage(p) == Docs[doc][p]

Tag(p, s) == [page |-> p, scale |-> s]

IdleDet == [pc |-> "idle", page |-> 0, acc |-> <<>>]

NoCommit == [tag |-> NoTag, value |-> <<>>, again |-> FALSE]

\* history: no card is selected by a click
NoClick == [key |-> "", data |-> <<>>]

IdleCluster == [items |-> <<>>, i |-> 1, lineMap |-> <<>>]

IdleScan == [pc |-> "idle"]

IdleText == [pc |-> "idle"]

InitComponent ==
    /\ doc \in 1..Len(Docs)
    /\ numPages = 0
    /\ pageNumber = 1
    /\ scale = Q
    /\ loading = TRUE
    /\ error = FALSE
    /\ pdfDoc = FALSE
    /\ marginData = NoMargin
    /\ whitespaceIndicators = <<>>
    /\ seasonIssues = <<>>
    /\ degreeIssues = <<>>
    /\ clutterIssues = <<>>
    /\ sectionOrderIssues = <<>>
    /\ sectionSizeIssues = <<>>
    /\ selectedSolution = ""
    /\ canvas = NoCanvas
    /\ renderPending = FALSE
    /\ rafQueue = FALSE
    /\ wsPasses = <<>>
    /\ det = [d \in Detectors |-> IdleDet]
    /\ navs = 0
    /\ wsTag = NoTag
    /\ mgTag = NoTag
    /\ lastCommit = [ws |-> NoCommit, mg |-> NoCommit, click |-> NoClick]

Init == InitComponent /\ cl = IdleCluster /\ ms = IdleScan /\ tx = IdleText

issueVars == <<seasonIssues, degreeIssues, clutterIssues, sectionOrderIssues, sectionSizeIssues>>

pureVars == <<cl, ms, tx>>

\* onDocumentLoadSuccess: the state updates, the five detector calls (each runs
\* to its first await), and react-pdf starting to render the selected page
onDocumentLoadSuccess ==
    /\ loading /\ ~pdfDoc /\ ~error
    /\ numPages' = Len(Docs[doc])
    /\ pdfDoc' = TRUE
    /\ loading' = FALSE
    /\ error' = FALSE
    /\ det' = [d \in Detectors |-> [pc |-> "running", page |-> 1, acc |-> <<>>]]
    /\ renderPending' = TRUE
    /\ UNCHANGED <<doc, pageNumber, scale, marginData, whitespaceIndicators, issueVars,
                   selectedSolution, canvas, rafQueue, wsPasses, navs, wsTag, mgTag,
                   lastCommit, pureVars>>

\* onDocumentLoadError
onDocumentLoadError ==
    /\ loading /\ ~pdfDoc /\ ~error
    /\ error' = TRUE
    /\ loading' = FALSE
    /\ UNCHANGED <<doc, numPages, pageNumber, scale, pdfDoc, marginData, whitespaceIndicators,
                   issueVars, selectedSolution, canvas, renderPending, rafQueue, wsPasses,
                   det, navs, wsTag, mgTag, lastCommit, pureVars>>

\* the issues a detector adds to its local list for one page
PageIssues(d, acc, p) ==
    IF d = "sectionOrder"
    THEN SectionOrderPage(acc, p, ThePage(p), DocViewportScale)
    ELSE acc \o PageFindings[doc][p][d]

\* the set... call that ends a detector: the new values of the five lists
CommitDetector(d, acc) ==
    /\ seasonIssues' = IF d = "season" THEN acc ELSE seasonIssues
    /\ degreeIssues' = IF d = "degree" THEN acc ELSE degreeIssues
    /\ clutterIssues' = IF d = "clutter" THEN acc ELSE clutterIssues
    /\ LET order(r) == IF d = "sectionOrder" /\ r.commit THEN r.issues ELSE sectionOrderIssues
       IN sectionOrderIssues' = order(SectionOrderResult(acc))
    /\ sectionSizeIssues' = IF d = "sectionSize" THEN acc ELSE sectionSizeIssues

\* a detector that stores its list after every page instead of after the last
DetectorStepPerPage(d) ==
    /\ det[d].pc = "running"
    /\ LET resume(acc) ==
               /\ det' = [det EXCEPT ![d] =
                             IF det[d].page < numPages
                             THEN [pc |-> "running", page |-> det[d].page + 1, acc |-> acc]
                             ELSE [pc |-> "done", page |-> 0, acc |-> <<>>]]
               /\ CommitDetector(d, acc)
       IN resume(PageIssues(d, det[d].acc, det[d].page))
    /\ UNCHANGED <<doc, numPages, pageNumber, scale, loading, error, pdfDoc, marginData,
                   whitespaceIndicators, selectedSolution, canvas, renderPending, rafQueue,
                   wsPasses, navs, wsTag, mgTag, lastCommit, pureVars>>

\* A detector resumes after `await page.getTextContent()` of its current page:
\* it scans the page and either awaits the next page or, after the last
\* page, commits its list.
DetectorStep(d) ==
    /\ det[d].pc = "running"
    /\ LET resume(acc) ==
               IF det[d].page < numPages
               THEN /\ det' = [det EXCEPT ![d] = [pc |-> "running", page |-> det[d].page + 1, acc |-> acc]]
                    /\ UNCHANGED issueVars
               ELSE /\ det' = [det EXCEPT ![d] = [pc |-> "done", page |-> 0, acc |-> <<>>]]
                    /\ CommitDetector(d, acc)
       IN resume(PageIssues(d, det[d].acc, det[d].page))
    /\ UNCHANGED <<doc, numPages, pageNumber, scale, loading, error, pdfDoc, marginData,
                   whitespaceIndicators, selectedSolution, canvas, renderPending, rafQueue,
                   wsPasses, navs, wsTag, mgTag, lastCommit, pureVars>>

\* a catch block that reports the failure through the error state of the viewer
DetectorFailLoud(d) ==
    /\ det[d].pc = "running"
    /\ det' = [det EXCEPT ![d] = [pc |-> "failed", page |-> 0, acc |-> <<>>]]
    /\ error' = TRUE
    /\ UNCHANGED <<doc, numPages, pageNumber, scale, loading, pdfDoc, marginData,
                   whitespaceIndicators, issueVars, selectedSolution, canvas, renderPending,
                   rafQueue, wsPasses, navs, wsTag, mgTag, lastCommit, pureVars>>

\* getPage or getTextContent rejects: the catch block logs, nothing is set
DetectorFail(d) ==
    /\ det[d].pc = "running"
    /\ det' = [det EXCEPT ![d] = [pc |-> "failed", page |-> 0, acc |-> <<>>]]
    /\ UNCHANGED <<doc, numPages, pageNumber, scale, loading, error, pdfDoc, marginData,
                   whitespaceIndicators, issueVars, selectedSolution, canvas, renderPending,
                   rafQueue, wsPasses, navs, wsTag, mgTag, lastCommit, pureVars>>

ZoomIndex == CHOOSE i \in 1..Len(ZOOM_LEVELS) : ZOOM_LEVELS[i] = scale

\* an effect on [pageNumber, scale] that also calls the five document-wide
\* detectors again
SelectRestarting(p, s) ==
    /\ navs < MaxNav
    /\ navs' = navs + 1
    /\ pageNumber' = p
    /\ scale' = s
    /\ IF p # pageNumber \/ s # scale
       THEN /\ marginData' = NoMargin
            /\ whitespaceIndicators' = <<>>
            /\ wsTag' = NoTag
            /\ mgTag' = NoTag
            /\ canvas' = NoCanvas
            /\ renderPending' = pdfDoc
            /\ det' = IF pdfDoc
                      THEN [d \in Detectors |-> [pc |-> "running", page |-> 1, acc |-> <<>>]]
                      ELSE det
       ELSE UNCHANGED <<marginData, whitespaceIndicators, wsTag, mgTag, canvas, renderPending, det>>
    /\ UNCHANGED <<doc, numPages, loading, error, pdfDoc, issueVars, selectedSolution,
                   rafQueue, wsPasses, lastCommit, pureVars>>

\* a change of selection that leaves the raster of the old selection on the page
SelectKeepingCanvas(p, s) ==
    /\ navs < MaxNav
    /\ navs' = navs + 1
    /\ pageNumber' = p
    /\ scale' = s
    /\ IF p # pageNumber \/ s # scale
       THEN /\ marginData' = NoMargin
            /\ whitespaceIndicators' = <<>>
            /\ wsTag' = NoTag
            /\ mgTag' = NoTag
            /\ canvas' = canvas
            /\ renderPending' = pdfDoc
       ELSE UNCHANGED <<marginData, whitespaceIndicators, wsTag, mgTag, canvas, renderPending>>
    /\ UNCHANGED <<doc, numPages, loading, error, pdfDoc, issueVars, selectedSolution,
                   rafQueue, wsPasses, det, lastCommit, pureVars>>

\* A state update of pageNumber / scale and the re-render it causes: when a
\* value changed, the effect on [pageNumber, scale] clears both overlays, and
\* react-pdf drops the raster of the previous selection and renders anew.
Select(p, s) ==
    /\ navs < MaxNav
    /\ navs' = navs + 1
    /\ pageNumber' = p
    /\ scale' = s
    /\ IF p # pageNumber \/ s # scale
       THEN /\ marginData' = NoMargin
            /\ whitespaceIndicators' = <<>>
            /\ wsTag' = NoTag
            /\ mgTag' = NoTag
            /\ canvas' = NoCanvas
            /\ renderPending' = pdfDoc
       ELSE UNCHANGED <<marginData, whitespaceIndicators, wsTag, mgTag, canvas, renderPending>>
    /\ UNCHANGED <<doc, numPages, loading, error, pdfDoc, issueVars, selectedSolution,
                   rafQueue, wsPasses, det, lastCommit, pureVars>>

\* (prev) => Math.max(prev - 1, 1)
PrevPage(prev) == Max2(prev - 1, 1)

\* a next page that is not held at the last page
NextPageUnclamped(prev, n) == prev + 1

\* (prev) => Math.min(prev + 1, numPages)
NextPage(prev, n) == Min2(prev + 1, n)

\* the Previous button (disabled while pageNumber <= 1)
goToPrevPage ==
    /\ ~(pageNumber <= 1)
    /\ Select(PrevPage(pageNumber), scale)

\* the Next button (disabled while pageNumber >= numPages)
goToNextPage ==
    /\ ~(pageNumber >= numPages)
    /\ Select(NextPage(pageNumber, numPages), scale)

\* the zoom-in button (disabled unless canZoomIn)
zoomIn ==
    /\ scale < ZOOM_LEVELS[Len(ZOOM_LEVELS)]
    /\ ZoomIndex < Len(ZOOM_LEVELS)
    /\ Select(pageNumber, ZOOM_LEVELS[ZoomIndex + 1])

\* the zoom-out button (disabled unless canZoomOut)
zoomOut ==
    /\ scale > ZOOM_LEVELS[1]
    /\ ZoomIndex > 1
    /\ Select(pageNumber, ZOOM_LEVELS[ZoomIndex - 1])

\* the scale zoomIn sets: the next level, or none at the last one
ZoomInScale(s) ==
    LET i == CHOOSE k \in 1..Len(ZOOM_LEVELS) : ZOOM_LEVELS[k] = s
    IN IF i < Len(ZOOM_LEVELS) THEN ZOOM_LEVELS[i + 1] ELSE s

\* the scale zoomOut sets: the level before, or none at the first one
ZoomOutScale(s) ==
    LET i == CHOOSE k \in 1..Len(ZOOM_LEVELS) : ZOOM_LEVELS[k] = s
    IN IF i > 1 THEN ZOOM_LEVELS[i - 1] ELSE s

\* The four handlers called where their buttons are disabled: goToPrevPage at
\* page 1, goToNextPage at the last page of the loaded document, zoomOut at
\* the first zoom level and zoomIn at the last
prevAtFirstPage ==
    /\ pageNumber <= 1
    /\ Select(PrevPage(pageNumber), scale)

nextAtLastPage ==
    /\ pdfDoc /\ pageNumber >= numPages
    /\ Select(NextPage(pageNumber, numPages), scale)

zoomOutAtFirstLevel ==
    /\ ~(scale > ZOOM_LEVELS[1])
    /\ Select(pageNumber, ZoomOutScale(scale))

zoomInAtLastLevel ==
    /\ ~(scale < ZOOM_LEVELS[Len(ZOOM_LEVELS)])
    /\ Select(pageNumber, ZoomInScale(scale))

\* onClick of the card of allSolutions[k]: every card toggles the selection
\* (prev === solution.key ? null : solution.key); the cards of the
\* document-wide issues first go to the page of the issue
onCardClick(k) ==
    /\ k \in 1..Len(allSolutions)
    /\ LET click(solution) ==
               LET jump == solution.type # "whitespace" /\ solution.data.page # pageNumber
               IN /\ selectedSolution' = IF selectedSolution = solution.key THEN "" ELSE solution.key
                  /\ lastCommit' = [lastCommit EXCEPT !.click =
                                       IF selectedSolution = solution.key THEN NoClick
                                       ELSE [key |-> solution.key, data |-> solution.data]]
                  /\ IF jump
                     THEN /\ navs < MaxNav
                          /\ navs' = navs + 1
                          /\ pageNumber' = solution.data.page
                          /\ marginData' = NoMargin
                          /\ whitespaceIndicators' = <<>>
                          /\ wsTag' = NoTag
                          /\ mgTag' = NoTag
                          /\ canvas' = NoCanvas
                          /\ renderPending' = pdfDoc
                     ELSE UNCHANGED <<navs, pageNumber, marginData, whitespaceIndicators, wsTag,
                                      mgTag, canvas, renderPending>>
       IN click(allSolutions[k])
    /\ UNCHANGED <<doc, numPages, scale, loading, error, pdfDoc, issueVars, rafQueue, wsPasses,
                   det, pureVars>>

\* onPageRenderSuccess for the selected page: the raster is on the canvas,
\* analyzeMargins is queued for the next animation frame, and analyzeWhitespace
\* runs to its first await with the pdfDoc, pageNumber and scale of its closure
onPageRenderSuccess ==
    /\ renderPending
    /\ Len(wsPasses) < MaxPasses
    /\ renderPending' = FALSE
    /\ canvas' = Tag(pageNumber, scale)
    /\ rafQueue' = TRUE
    /\ wsPasses' = IF pdfDoc
                   THEN Append(wsPasses, [page |-> pageNumber, scale |-> scale, pc |-> "getPage"])
                   ELSE wsPasses
    /\ UNCHANGED <<doc, numPages, pageNumber, scale, loading, error, pdfDoc, marginData,
                   whitespaceIndicators, issueVars, selectedSolution, det, navs, wsTag, mgTag,
                   lastCommit, pureVars>>

Without(seq, i) == SubSeq(seq, 1, i - 1) \o SubSeq(seq, i + 1, Len(seq))

\* a setter that merges the new findings into the stored ones
MergeWhitespaceIndicators(prev, indicators) == prev \o indicators

\* setWhitespaceIndicators(indicators)
SetWhitespaceIndicators(prev, indicators) == indicators

\* `await pdfDoc.getPage(pageNumber)` of pass i resolves
WsGetPage(i) ==
    /\ i \in 1..Len(wsPasses)
    /\ wsPasses[i].pc = "getPage"
    /\ wsPasses' = [wsPasses EXCEPT ![i].pc = "getTextContent"]
    /\ UNCHANGED <<doc, numPages, pageNumber, scale, loading, error, pdfDoc, marginData,
                   whitespaceIndicators, issueVars, selectedSolution, canvas, renderPending,
                   rafQueue, det, navs, wsTag, mgTag, lastCommit, pureVars>>

\* `await page.getTextContent()` of pass i resolves: steps 1-6 run and the
\* findings, if the pass reaches the end, are stored
WsFinish(i) ==
    /\ i \in 1..Len(wsPasses)
    /\ wsPasses[i].pc = "getTextContent"
    /\ wsPasses' = Without(wsPasses, i)
    /\ LET store(t, r) ==
               IF r.commit
               THEN /\ whitespaceIndicators' = SetWhitespaceIndicators(whitespaceIndicators, r.indicators)
                    /\ wsTag' = t
                    /\ lastCommit' = [lastCommit EXCEPT !.ws =
                                         [tag |-> t, value |-> whitespaceIndicators',
                                          again |-> lastCommit.ws.tag = t]]
               ELSE UNCHANGED <<whitespaceIndicators, wsTag, lastCommit>>
       IN store(Tag(wsPasses[i].page, wsPasses[i].scale),
                WsResults[doc][wsPasses[i].page][wsPasses[i].scale])
    /\ UNCHANGED <<doc, numPages, pageNumber, scale, loading, error, pdfDoc, marginData,
                   issueVars, selectedSolution, canvas, renderPending, rafQueue, det, navs,
                   mgTag, pureVars>>

\* one of the awaits of pass i rejects: the catch block logs, nothing is set
WsFail(i) ==
    /\ i \in 1..Len(wsPasses)
    /\ wsPasses' = Without(wsPasses, i)
    /\ UNCHANGED <<doc, numPages, pageNumber, scale, loading, error, pdfDoc, marginData,
                   whitespaceIndicators, issueVars, selectedSolution, canvas, renderPending,
                   rafQueue, det, navs, wsTag, mgTag, lastCommit, pureVars>>

CtxOutcomes == {"ok", "null", "throws"}

\* The next animation frame runs the queued analyzeMargins callbacks, one after
\* the other: each scans whatever canvas is under the page container at that
\* time, so they all scan the same raster and store the same value; ctx is the
\* best outcome of getContext / getImageData among them.
analyzeMargins(ctx) ==
    /\ rafQueue
    /\ rafQueue' = FALSE
    /\ LET c == Rasters[doc][canvas.page][canvas.scale]
           margins == IF ctx = "ok" THEN RasterMargins[doc][canvas.page][canvas.scale]
                      ELSE detectWhitespaceMargins([c EXCEPT !.ctx = ctx])
       IN IF canvas = NoCanvas THEN UNCHANGED <<marginData, mgTag, lastCommit>>
          ELSE IF margins.null THEN UNCHANGED <<marginData, mgTag, lastCommit>>
          ELSE /\ marginData' = MarginDataOf(c, margins)
               /\ mgTag' = canvas
               /\ lastCommit' = [lastCommit EXCEPT !.mg =
                                    [tag |-> canvas, value |-> marginData',
                                     again |-> lastCommit.mg.tag = canvas]]
    /\ UNCHANGED <<doc, numPages, pageNumber, scale, loading, error, pdfDoc,
                   whitespaceIndicators, issueVars, selectedSolution, canvas, renderPending,
                   wsPasses, det, navs, wsTag, pureVars>>

Next ==
    \/ onDocumentLoadSuccess
    \/ onDocumentLoadError
    \/ \E d \in Detectors : DetectorStep(d)
    \/ \E d \in Detectors : DetectorFail(d)
    \/ goToPrevPage
    \/ goToNextPage
    \/ zoomIn
    \/ zoomOut
    \/ onPageRenderSuccess
    \/ \E i \in 1..MaxPasses : WsGetPage(i)
    \/ \E i \in 1..MaxPasses : WsFinish(i)
    \/ \E i \in 1..MaxPasses : WsFail(i)
    \/ \E ctx \in CtxOutcomes : analyzeMargins(ctx)

Spec == Init /\ [][Next]_vars

----------------------------------------------------------------------------
(* Parts of the component.  The document-wide detectors write det and the   *)
(* five issue lists and read only doc and numPages; the page-scoped actions *)
(* read and write none of these.  Spec is the product of the two parts, and *)
(* each part is explored on its own.                                        *)

\* navigation, rendering, and the page-scoped passes
NextView ==
    \/ onDocumentLoadSuccess
    \/ onDocumentLoadError
    \/ goToPrevPage
    \/ goToNextPage
    \/ zoomIn
    \/ zoomOut
    \/ onPageRenderSuccess
    \/ \E i \in 1..MaxPasses : WsGetPage(i)
    \/ \E i \in 1..MaxPasses : WsFinish(i)
    \/ \E i \in 1..MaxPasses : WsFail(i)
    \/ \E ctx \in CtxOutcomes : analyzeMargins(ctx)

SpecView == Init /\ [][NextView]_vars

\* the document load and the five detectors, interleaved freely at their awaits
NextDoc ==
    \/ onDocumentLoadSuccess
    \/ onDocumentLoadError
    \/ \E d \in Detectors : DetectorStep(d)
    \/ \E d \in Detectors : DetectorFail(d)

SpecDoc == Init /\ [][NextDoc]_vars

\* the order of the detector calls in onDocumentLoadSuccess
DetectorOrder == <<"season", "degree", "clutter", "sectionOrder", "sectionSize">>

\* d is the first detector, in call order, that has not finished
InTurn(d) ==
    \E k \in 1..Len(DetectorOrder) :
        /\ DetectorOrder[k] = d
        /\ \A j \in 1..(k - 1) : det[DetectorOrder[j]].pc # "running"

DetectorTurn == \E d \in Detectors : InTurn(d) /\ DetectorStep(d)

\* The result panel: what allSolutions is computed from.  The detectors finish
\* in call order, in any interleaving with navigation and with the
\* line-utilization passes; the margin frame callback, which writes nothing
\* allSolutions reads, is left out.
NextPanel ==
    \/ onDocumentLoadSuccess
    \/ onDocumentLoadError
    \/ DetectorTurn
    \/ goToPrevPage
    \/ goToNextPage
    \/ zoomIn
    \/ zoomOut
    \/ onPageRenderSuccess
    \/ \E i \in 1..MaxPasses : WsGetPage(i)
    \/ \E i \in 1..MaxPasses : WsFinish(i)
    \/ \E i \in 1..MaxPasses : WsFail(i)

SpecPanel == Init /\ [][NextPanel]_vars

----------------------------------------------------------------------------
(* Properties of the component *)

Selection == Tag(pageNumber, scale)

\* C1: whitespaceIndicators never holds findings that a line-utilization pass
\* computed for a (page, zoom) other than the selected one: a pass whose reads
\* complete after the selection changed does not commit.
C1_StalePassDiscarded == whitespaceIndicators # <<>> => wsTag = Selection

\* C2: a change of page or zoom resets the margin measurement to none and the
\* whitespace findings to empty, and afterwards no margin or whitespace overlay
\* of an earlier (page, zoom) is shown with the new selection.
C2_NoStaleOverlay ==
    /\ marginData.present => mgTag = Selection
    /\ wsTag # NoTag => wsTag = Selection

\* the list a detector stores its findings in
ListOf(d) ==
    CASE d = "season" -> seasonIssues
      [] d = "degree" -> degreeIssues
      [] d = "clutter" -> clutterIssues
      [] d = "sectionOrder" -> sectionOrderIssues
      [] d = "sectionSize" -> sectionSizeIssues

\* sectionsFound after the pages 1..n of the loaded document
RECURSIVE SectionsFoundUpTo(_)
SectionsFoundUpTo(n) ==
    IF n = 0 THEN <<>>
    ELSE SectionOrderPage(SectionsFoundUpTo(n - 1), n, ThePage(n), DocViewportScale)

\* the findings of a detector on all the pages of the loaded document
WholeList(d) ==
    IF d = "sectionOrder"
    THEN LET r == SectionOrderResult(SectionsFoundUpTo(Len(Docs[doc])))
         IN IF r.commit THEN r.issues ELSE <<>>
    ELSE Flatten([p \in 1..Len(Docs[doc]) |-> PageFindings[doc][p][d]])

FindingLists ==
    [degree |-> degreeIssues, season |-> seasonIssues, whitespace |-> whitespaceIndicators,
     clutter |-> clutterIssues, sectionOrder |-> sectionOrderIssues,
     sectionSize |-> sectionSizeIssues]

\* C4: allSolutions holds exactly one entry per element of the degree, season,
\* whitespace, section-spacing, section-order and title-size lists, and is
\* sorted by page ascending and, within a page, by pdfY descending.
C4_AllSolutionsSorted ==
    LET s == allSolutions
        lists == FindingLists
        types == DOMAIN lists
    IN /\ Len(s) = Len(degreeIssues) + Len(seasonIssues) + Len(whitespaceIndicators)
                   + Len(clutterIssues) + Len(sectionOrderIssues) + Len(sectionSizeIssues)
       /\ \A k \in 1..Len(s) : s[k].type \in types
       /\ \A t \in types : \A i \in 1..Len(lists[t]) :
              Cardinality({k \in 1..Len(s) :
                  /\ s[k].type = t
                  /\ s[k].key = t \o "-" \o ToString(i - 1)
                  /\ s[k].data = lists[t][i]
                  /\ s[k].pdfY = lists[t][i].pdfY
                  /\ s[k].page = IF t = "whitespace" THEN pageNumber ELSE lists[t][i].page}) = 1
       /\ \A k \in 1..(Len(s) - 1) :
              \/ s[k].page < s[k + 1].page
              \/ s[k].page = s[k + 1].page /\ s[k].pdfY >= s[k + 1].pdfY

\* the panel lists findings of two pages, a whitespace finding among them, and
\* two findings of different detectors on one page at different heights
C4_Witness ==
    LET s == allSolutions
    IN /\ \E k \in 1..Len(s) : s[k].type = "whitespace"
       /\ \E k \in 1..(Len(s) - 1) : s[k].page < s[k + 1].page
       /\ \E k \in 1..(Len(s) - 1) :
              /\ s[k].page = s[k + 1].page
              /\ s[k].pdfY > s[k + 1].pdfY
              /\ s[k].type # s[k + 1].type

\* the findings of the five document-wide detectors
DocWideIssues ==
    seasonIssues \o degreeIssues \o clutterIssues \o sectionOrderIssues \o sectionSizeIssues

\* the indices of the visible fragments of every page of Docs
VisibleFragments ==
    [d \in 1..Len(Docs) |-> [p \in 1..Len(Docs[d]) |->
        {i \in 1..Len(Docs[d][p].items) : Trim(Docs[d][p].items[i].str) # ""}]]

\* the visible fragments of page p of the loaded document
Fragments(p) == VisibleFragments[doc][p]

\* v is the left edge, at zoom z, of a fragment of page p
LeftEdgeAt(v, p, z) == \E i \in Fragments(p) : v = ThePage(p).items[i].x * z

\* v is the right edge, at zoom z, of a fragment of page p
RightEdgeAt(v, p, z) ==
    \E i \in Fragments(p) : v = (ThePage(p).items[i].x + ThePage(p).items[i].width) * z

\* v is the baseline, at zoom z and counted from the top of the page, of a
\* fragment of page p whose document-space y is pdfY
BaselineAt(v, pdfY, p, z) ==
    \E i \in Fragments(p) :
        /\ Abs(ThePage(p).items[i].y - pdfY) <= LINE_TOLERANCE_PTS
        /\ v = (ThePage(p).height - ThePage(p).items[i].y) * z

RECURSIVE HeightSum(_, _)
HeightSum(p, S) ==
    IF S = {} THEN 0
    ELSE LET i == CHOOSE i \in S : TRUE
         IN ItemHeight(ThePage(p).items[i]) + HeightSum(p, S \ {i})

\* h = <<num, den>> is the average height, at zoom z, of den fragments of page p
\* near the document-space y pdfY
AvgHeightAt(h, pdfY, p, z) ==
    LET near == {i \in Fragments(p) : Abs(ThePage(p).items[i].y - pdfY) <= LINE_TOLERANCE_PTS}
    IN \E S \in SUBSET near : Cardinality(S) = h[2] /\ h[1] = HeightSum(p, S) * z

\* the box of a document-wide finding spans fragments of its page as the
\* viewport of zoom 1 places them
DocWideAtZoomOne ==
    \A k \in 1..Len(DocWideIssues) :
        LET iss == DocWideIssues[k]
        IN /\ LeftEdgeAt(iss.baseX, iss.page, Q)
           /\ RightEdgeAt(iss.baseX + iss.baseWidth, iss.page, Q)

\* the stored whitespace findings span fragments of the page of their pass as
\* a viewport of zoom z places them
WhitespaceAtZoom(z) ==
    \A k \in 1..Len(whitespaceIndicators) :
        LET ind == whitespaceIndicators[k]
        IN /\ LeftEdgeAt(ind.lineX, wsTag.page, z)
           /\ RightEdgeAt(ind.x, wsTag.page, z)
           /\ RightEdgeAt(ind.x + ind.width, wsTag.page, z)
           /\ BaselineAt(ind.y + 1 * Q, ind.pdfY, wsTag.page, z)
           /\ AvgHeightAt(ind.lineHeight, ind.pdfY, wsTag.page, z)

\* C5 (as stated): every stored finding carries coordinates at zoom 1,
\* whatever zoom was active when it was computed, the line-whitespace
\* findings (x, y, width, lineX, lineHeight) included.
C5_AllStoredAtZoomOne == DocWideAtZoomOne /\ WhitespaceAtZoom(Q)

\* C5 (amended): the findings of the document-wide detectors carry coordinates
\* at zoom 1 whatever zoom is active; the line-whitespace findings are stored
\* in screen space, at the zoom their pass captured.
C5_StoredAtZoomOfPass == DocWideAtZoomOne /\ WhitespaceAtZoom(wsTag.scale)

\* the detectors have stored findings while a zoom other than 1 is selected,
\* and whitespace findings of a pass at that zoom are stored
C5_Witness ==
    /\ \A d \in Detectors : det[d].pc = "done"
    /\ DocWideIssues # <<>>
    /\ whitespaceIndicators # <<>>
    /\ wsTag = Selection
    /\ scale # Q

----------------------------------------------------------------------------
(* The line clusterer on its own: the grouping loop over the fragments of   *)
(* one page, one iteration per step                                         *)

\* the component before its document loads
Parked == InitComponent /\ doc = 1

\* the fragments a clustering pass may be given: a baseline-y each, blank or not
ClusterFragment == {[y |-> y, str |-> str] : y \in 0..MaxY, str \in {"a", " "}}

RECURSIVE SeqsUpTo(_, _)
SeqsUpTo(S, n) ==
    IF n = 0 THEN {<<>>}
    ELSE LET shorter == SeqsUpTo(S, n - 1)
         IN shorter \cup {Append(q, e) : q \in {r \in shorter : Len(r) = n - 1}, e \in S}

ClusterInputs == SeqsUpTo(ClusterFragment, MaxFrags) \ {<<>>}

InitCluster ==
    /\ Parked
    /\ ms = IdleScan
    /\ tx = IdleText
    /\ \E items \in ClusterInputs : cl = [items |-> items, i |-> 1, lineMap |-> <<>>]

\* the entry the loop stores for item i: the fragment and its place in the input
ClusterEntry(i) == [id |-> i, y |-> cl.items[i].y, str |-> cl.items[i].str]

\* `if (!item.str.trim()) continue`
ClusterSkip ==
    /\ cl.i <= Len(cl.items)
    /\ Trim(cl.items[cl.i].str) = ""
    /\ cl' = [cl EXCEPT !.i = cl.i + 1]
    /\ UNCHANGED <<compVars, ms, tx>>

\* the bucket search and the push of one visible item
ClusterAdd ==
    /\ cl.i <= Len(cl.items)
    /\ Trim(cl.items[cl.i].str) # ""
    /\ cl' = [cl EXCEPT !.i = cl.i + 1,
                        !.lineMap = AddToLineMap(cl.lineMap, cl.items[cl.i].y, ClusterEntry(cl.i))]
    /\ UNCHANGED <<compVars, ms, tx>>

NextCluster == ClusterSkip \/ ClusterAdd

SpecCluster == InitCluster /\ [][NextCluster]_vars

\* the fragments placed so far, and the bucket each one is in
Placed ==
    UNION {{cl.lineMap[b].items[k].id : k \in 1..Len(cl.lineMap[b].items)} :
              b \in 1..Len(cl.lineMap)}

BucketOf(f) ==
    CHOOSE b \in 1..Len(cl.lineMap) :
        \E k \in 1..Len(cl.lineMap[b].items) : cl.lineMap[b].items[k].id = f

YOf(f) == cl.items[f].y

\* C7 (as stated): any two non-blank fragments whose baseline-y differ by at
\* most the tolerance are in the same line bucket.
C7_CloseFragmentsShareBucket ==
    \A f, g \in Placed :
        Abs(YOf(f) - YOf(g)) <= LINE_TOLERANCE_PTS => BucketOf(f) = BucketOf(g)

\* C7 (amended): a non-blank fragment whose baseline-y is within the tolerance
\* of the key of another fragment's bucket (the baseline-y of the fragment
\* that opened it) is in that bucket, unless a bucket opened earlier took it.
C7_FragmentJoinsKeyInReach ==
    \A f, g \in Placed :
        /\ Abs(YOf(g) - cl.lineMap[BucketOf(f)].key) <= LINE_TOLERANCE_PTS
        /\ BucketOf(f) <= BucketOf(g)
        => BucketOf(f) = BucketOf(g)

\* two buckets are open and a third fragment, within the tolerance of both
\* keys, has been placed
C7_Witness ==
    /\ Len(cl.lineMap) = 2
    /\ \E g \in Placed :
          /\ YOf(g) # cl.lineMap[1].key /\ YOf(g) # cl.lineMap[2].key
          /\ Abs(YOf(g) - cl.lineMap[1].key) <= LINE_TOLERANCE_PTS
          /\ Abs(YOf(g) - cl.lineMap[2].key) <= LINE_TOLERANCE_PTS

\* C8 (as stated): two fragments whose baseline-y differ by strictly more
\* than the tolerance are never in the same line bucket.
C8_FarFragmentsNeverShareBucket ==
    \A f, g \in Placed :
        Abs(YOf(f) - YOf(g)) > LINE_TOLERANCE_PTS => BucketOf(f) # BucketOf(g)

\* C8 (amended): every fragment of a bucket is within the tolerance of the
\* bucket's key, so two fragments of one bucket differ by at most twice the
\* tolerance.
C8_BucketWithinReachOfKey ==
    \A f, g \in Placed :
        BucketOf(f) = BucketOf(g) =>
            /\ Abs(YOf(f) - cl.lineMap[BucketOf(f)].key) <= LINE_TOLERANCE_PTS
            /\ Abs(YOf(f) - YOf(g)) <= 2 * LINE_TOLERANCE_PTS

\* a bucket holds two fragments on either side of its key, further apart
\* than the tolerance
C8_Witness ==
    \E f, g \in Placed :
        /\ BucketOf(f) = BucketOf(g)
        /\ YOf(f) < cl.lineMap[BucketOf(f)].key
        /\ YOf(g) > cl.lineMap[BucketOf(f)].key
        /\ YOf(g) - YOf(f) > LINE_TOLERANCE_PTS

----------------------------------------------------------------------------
(* The margin scanner on its own: one call of detectWhitespaceMargins on a  *)
(* raster                                                                   *)

\* colours around the near-white threshold, and transparent black
Palette == {<<NEAR_WHITE_THRESHOLD, 255, 255, 255>>, <<255, NEAR_WHITE_THRESHOLD, 255, 255>>,
            <<255, 255, NEAR_WHITE_THRESHOLD, 255>>, <<0, 0, 0, 0>>}

\* the lightest background that still counts as whitespace
Paper == <<NEAR_WHITE_THRESHOLD + 1, NEAR_WHITE_THRESHOLD + 1, NEAR_WHITE_THRESHOLD + 1, 255>>

\* rasters of up to MaxDim x MaxDim pixels: paper, and up to MaxDark pixels
\* of one colour of the palette
ScanInputs ==
    UNION {UNION {{MkCanvas(w, h, w * Q, h * Q,
                            RasterData(w, h, Paper, [px \in S |-> colour]), "ok") :
                      colour \in Palette} :
                  S \in {T \in SUBSET (0..(w * h - 1)) : Cardinality(T) <= MaxDark}} :
           w \in 1..MaxDim, h \in 1..MaxDim}

\* a canvas that gives no 2d context, and one whose getImageData throws
BrokenInputs ==
    {MkCanvas(1, 1, Q, Q, RasterData(1, 1, Paper, <<>>), ctx) : ctx \in CtxOutcomes \ {"ok"}}

InitMargin ==
    /\ Parked
    /\ cl = IdleCluster
    /\ tx = IdleText
    /\ \E c \in ScanInputs \cup BrokenInputs : ms = [pc |-> "called", c |-> c]

\* the call returns
MarginReturn ==
    /\ ms.pc = "called"
    /\ ms' = [pc |-> "returned", c |-> ms.c, result |-> detectWhitespaceMargins(ms.c)]
    /\ UNCHANGED <<compVars, cl, tx>>

NextMargin == MarginReturn

SpecMargin == InitMargin /\ [][NextMargin]_vars

\* the pixel (x, y) of the scanned raster is near-white
NearWhite(x, y) ==
    LET at == (y * ms.c.width + x) * 4
    IN \A ch \in 1..3 : ms.c.data[at + ch] > NEAR_WHITE_THRESHOLD

\* the pixels of the scanned raster that are not near-white
InkPixels ==
    {xy \in (0..(ms.c.width - 1)) \X (0..(ms.c.height - 1)) : ~NearWhite(xy[1], xy[2])}

Scanned == ms.pc = "returned" /\ ms.c.ctx = "ok"

\* C9: for a raster whose pixels are all near-white the scanner returns
\* top = bottom = height and left = right = width.
C9_BlankRasterFullMargins ==
    Scanned /\ InkPixels = {} =>
        /\ ~ms.result.null
        /\ ms.result.top = ms.c.height /\ ms.result.bottom = ms.c.height
        /\ ms.result.left = ms.c.width /\ ms.result.right = ms.c.width

\* C10: for a raster with a pixel that is not near-white (R, G and B all above
\* 230) the scanner returns, per edge, the number of all-whitespace rows or
\* columns between the edge and the nearest row or column with such a pixel.
C10_MarginsCountBlankLines ==
    Scanned /\ InkPixels # {} =>
        /\ ~ms.result.null
        /\ \A xy \in InkPixels :
              /\ ms.result.left <= xy[1] /\ ms.result.right <= ms.c.width - 1 - xy[1]
              /\ ms.result.top <= xy[2] /\ ms.result.bottom <= ms.c.height - 1 - xy[2]
        /\ \E xy \in InkPixels : ms.result.left = xy[1]
        /\ \E xy \in InkPixels : ms.result.right = ms.c.width - 1 - xy[1]
        /\ \E xy \in InkPixels : ms.result.top = xy[2]
        /\ \E xy \in InkPixels : ms.result.bottom = ms.c.height - 1 - xy[2]

\* a raster whose only pixel that is not near-white, with one channel equal to
\* the threshold, is off every edge, has been scanned
C10_Witness ==
    /\ Scanned
    /\ \E xy \in InkPixels :
          /\ InkPixels = {xy}
          /\ xy[1] > 0 /\ xy[1] < ms.c.width - 1
          /\ xy[2] > 0 /\ xy[2] < ms.c.height - 1
          /\ ms.c.data[(xy[2] * ms.c.width + xy[1]) * 4 + 1] = NEAR_WHITE_THRESHOLD
          /\ ms.result = [null |-> FALSE, top |-> xy[2], bottom |-> ms.c.height - 1 - xy[2],
                          left |-> xy[1], right |-> ms.c.width - 1 - xy[1]]

----------------------------------------------------------------------------
(* Margin flags: thresholdPx and flaggedMargins of the render, and one      *)
(* analyzeMargins measurement of a canvas at a zoom                         *)

MaxDpr == 2          \* largest device pixel ratio of a measured canvas

\* MARGIN_THRESHOLD_INCHES, 0.7, as a fraction
MARGIN_THRESHOLD_INCHES == <<7, 10>>

POINTS_PER_INCH == 72   \* MARGIN_THRESHOLD_INCHES * 72 * scale

\* a > b that also holds when the two are equal
GreaterOrEqual(a, b) == a[1] * b[2] >= b[1] * a[2]

\* a > b for fractions with positive denominators
Greater(a, b) == a[1] * b[2] > b[1] * a[2]

\* thresholdPx, in quarter pixels (scale is in quarters)
thresholdPx == <<MARGIN_THRESHOLD_INCHES[1] * POINTS_PER_INCH * scale, MARGIN_THRESHOLD_INCHES[2]>>

\* flaggedMargins: null without a measurement
flaggedMargins ==
    IF marginData.present
    THEN [null |-> FALSE,
          top |-> Greater(marginData.top, thresholdPx),
          bottom |-> Greater(marginData.bottom, thresholdPx),
          left |-> Greater(marginData.left, thresholdPx),
          right |-> Greater(marginData.right, thresholdPx)]
    ELSE [null |-> TRUE]

Sides == {"top", "bottom", "left", "right"}

\* hasMarginIssue
hasMarginIssue ==
    IF flaggedMargins.null THEN FALSE ELSE \E side \in Sides : flaggedMargins[side]

\* the number of physical pixels whose logical length is the largest one not
\* above the threshold at zoom s, for a canvas of pixel ratio r
EdgeRows(s, r) ==
    (MARGIN_THRESHOLD_INCHES[1] * POINTS_PER_INCH * s * r) \div (MARGIN_THRESHOLD_INCHES[2] * Q)

\* A canvas of r x h physical pixels that is 1 CSS pixel wide (or has no
\* style.width when styled is FALSE), white but for one ink pixel in row y
ColumnCanvas(r, h, y, styled, ctx) ==
    MkCanvas(r, h, IF styled THEN Q ELSE 0, IF styled THEN (h * Q) \div r ELSE 0,
             RasterData(r, h, White, ((y * r) :> Ink)), ctx)

\* canvases whose top and bottom margins are the last length under the
\* threshold of zoom s and the first one above it
FlagInputs(s) ==
    UNION {UNION {{ColumnCanvas(r, top + 1 + bottom, top, styled, "ok") :
                      top \in {EdgeRows(s, IF styled THEN r ELSE 1) + k : k \in 0..1}} :
                  bottom \in {EdgeRows(s, IF styled THEN r ELSE 1) + k : k \in 0..1}} :
           r \in 1..MaxDpr, styled \in BOOLEAN}

\* the component as constructed, at any zoom level
Zoomed ==
    /\ doc = 1
    /\ scale \in ZoomSet
    /\ numPages = 0 /\ pageNumber = 1 /\ loading = TRUE /\ error = FALSE /\ pdfDoc = FALSE
    /\ marginData = NoMargin
    /\ whitespaceIndicators = <<>>
    /\ seasonIssues = <<>> /\ degreeIssues = <<>> /\ clutterIssues = <<>>
    /\ sectionOrderIssues = <<>> /\ sectionSizeIssues = <<>>
    /\ selectedSolution = ""
    /\ canvas = NoCanvas /\ renderPending = FALSE /\ rafQueue = FALSE
    /\ wsPasses = <<>>
    /\ det = [d \in Detectors |-> IdleDet]
    /\ navs = 0 /\ wsTag = NoTag /\ mgTag = NoTag
    /\ lastCommit = [ws |-> NoCommit, mg |-> NoCommit, click |-> NoClick]

InitFlag ==
    /\ Zoomed
    /\ cl = IdleCluster
    /\ tx = IdleText
    /\ \E c \in FlagInputs(scale) \cup BrokenInputs : ms = [pc |-> "called", c |-> c]

\* analyzeMargins on the canvas ms.c: the scan, and setMarginData unless the
\* scan returned null
MeasureMargins ==
    /\ ms.pc = "called"
    /\ LET store(margins) ==
               /\ ms' = [pc |-> "returned", c |-> ms.c, result |-> margins]
               /\ marginData' = IF margins.null THEN marginData
                                ELSE MarginDataOf(ms.c, margins)
       IN store(detectWhitespaceMargins(ms.c))
    /\ UNCHANGED <<doc, numPages, pageNumber, scale, loading, error, pdfDoc,
                   whitespaceIndicators, issueVars, selectedSolution, canvas, renderPending,
                   rafQueue, wsPasses, det, navs, wsTag, mgTag, lastCommit, cl, tx>>

NextFlag == MeasureMargins

SpecFlag == InitFlag /\ [][NextFlag]_vars

\* physWidth / cssWidth of the measured canvas, as a fraction
PixelRatio ==
    IF ms.c.cssWidth = 0 THEN <<1, 1>> ELSE <<ms.c.width * Q, ms.c.cssWidth>>

\* m physical pixels, in logical pixels, against 0.7 * 72 * zoom:
\* -1 below, 0 equal, 1 above
AgainstThreshold(m) ==
    LET logical == m * PixelRatio[2] * MARGIN_THRESHOLD_INCHES[2] * Q
        limit == MARGIN_THRESHOLD_INCHES[1] * POINTS_PER_INCH * scale * PixelRatio[1]
    IN IF logical > limit THEN 1 ELSE IF logical = limit THEN 0 ELSE -1

\* C11: a margin is flagged iff its length in logical pixels (physical pixels
\* divided by the pixel ratio) is strictly greater than 0.7 * 72 * zoom; a
\* margin at the threshold is not flagged; without a measurement nothing is
\* flagged.
C11_FlaggedIffAboveThreshold ==
    /\ ~marginData.present => flaggedMargins.null /\ ~hasMarginIssue
    /\ Scanned =>
          /\ marginData.present
          /\ ~flaggedMargins.null
          /\ \A side \in Sides :
                flaggedMargins[side] <=> AgainstThreshold(ms.result[side]) = 1

\* a measurement whose top margin is exactly at the threshold and not
\* flagged, and whose bottom margin is one pixel longer and flagged
C11_Witness ==
    /\ Scanned
    /\ AgainstThreshold(ms.result.top) = 0 /\ ~flaggedMargins.top
    /\ ms.result.bottom = ms.result.top + 1 /\ flaggedMargins.bottom
    /\ ~flaggedMargins.left

----------------------------------------------------------------------------
(* The line-utilization pass on its own: steps 1-6 of analyzeWhitespace on  *)
(* a page of one header and a block of content lines                        *)

MaxLines == 3        \* content lines of the block

\* left and right edges of the content lines, in points: with the left edge
\* at 5 and the widest line ending at 25 the others end at 40%, 50%, 60%, 75%
\* and 80%
LeftEdges == {5, 7}

RightEdges == {13, 15, 17, 20, 21, 25}

\* the baseline of content line k, under a header at 90
LineY(k) == 90 - 12 * k

\* The page: a header wider than every content line, then the lines.  The
\* first line comes as two fragments, the second one starts at lefts[2].
UtilPage(lines) ==
    [height |-> 110,
     items |-> <<It("Skills", 5, 90, 40, 12)>>
               \o Flatten([k \in 1..Len(lines) |->
                     IF k = 1
                     THEN <<It("cd", lines[k].left + 4, LineY(k), lines[k].right - lines[k].left - 4, 10),
                            It("ab", lines[k].left, LineY(k), 3, 10)>>
                     ELSE <<It("abc", lines[k].left, LineY(k), lines[k].right - lines[k].left, 10)>>])]

UtilInputs ==
    {[k \in 1..MaxLines |-> [left |-> IF k = 2 THEN l ELSE 5, right |-> rs[k], y |-> LineY(k)]] :
        l \in LeftEdges, rs \in [1..MaxLines -> RightEdges]}

InitUtil ==
    /\ Zoomed
    /\ cl = IdleCluster
    /\ ms = IdleScan
    /\ \E lines \in UtilInputs :
          tx = [pc |-> "called", kind |-> "whitespace", lines |-> lines, page |-> UtilPage(lines)]

\* analyzeWhitespace after its awaits, on the page tx.page at the current zoom
UtilPass ==
    /\ tx.pc = "called" /\ tx.kind = "whitespace"
    /\ tx' = [tx EXCEPT !.pc = "returned"]
    /\ LET store(r) ==
               whitespaceIndicators' =
                   IF r.commit THEN SetWhitespaceIndicators(whitespaceIndicators, r.indicators)
                   ELSE whitespaceIndicators
       IN store(WhitespaceResult(tx.page, scale))
    /\ UNCHANGED <<doc, numPages, pageNumber, scale, loading, error, pdfDoc, marginData,
                   issueVars, selectedSolution, canvas, renderPending, rafQueue, wsPasses,
                   det, navs, wsTag, mgTag, lastCommit, cl, ms>>

NextUtil == UtilPass

SpecUtil == InitUtil /\ [][NextUtil]_vars

UtilDone == tx.pc = "returned" /\ tx.kind = "whitespace"

\* the reference bounds of the block, in points
RefLeft == CHOOSE x \in {tx.lines[k].left : k \in 1..Len(tx.lines)} :
               \A k \in 1..Len(tx.lines) : x <= tx.lines[k].left

RefRight == CHOOSE x \in {tx.lines[k].right : k \in 1..Len(tx.lines)} :
                \A k \in 1..Len(tx.lines) : x >= tx.lines[k].right

\* the findings stored for the content line l
FindingsOf(l) ==
    {i \in 1..Len(whitespaceIndicators) : whitespaceIndicators[i].pdfY = l.y}

\* C12: with xLeft the least left edge and xRight the greatest right edge of
\* the content lines, a content line is flagged iff
\* (xRight - lineRight) / (xRight - xLeft) > 0.25, and the utilization stored
\* with it is (lineRight - xLeft) / (xRight - xLeft).
C12_FlaggedIffUnusedAboveQuarter ==
    UtilDone =>
        /\ \A k \in 1..Len(tx.lines) :
              /\ Cardinality(FindingsOf(tx.lines[k])) =
                    IF (RefRight - tx.lines[k].right) * 4 > RefRight - RefLeft THEN 1 ELSE 0
              /\ \A i \in FindingsOf(tx.lines[k]) :
                    whitespaceIndicators[i].utilization[1] * (RefRight - RefLeft)
                        = (tx.lines[k].right - RefLeft) * whitespaceIndicators[i].utilization[2]
        /\ \A i \in 1..Len(whitespaceIndicators) :
              \E k \in 1..Len(tx.lines) : i \in FindingsOf(tx.lines[k])

\* three lines with a common left edge that end at 100%, 100% and 60% of the
\* reference width: only the third is flagged, with utilization 0.60
C12_Witness ==
    /\ UtilDone
    /\ Len(tx.lines) = 3
    /\ \A k \in 1..3 : tx.lines[k].left = RefLeft
    /\ tx.lines[1].right = RefRight /\ tx.lines[2].right = RefRight
    /\ (tx.lines[3].right - RefLeft) * 5 = 3 * (RefRight - RefLeft)
    /\ Len(whitespaceIndicators) = 1
    /\ whitespaceIndicators[1].pdfY = tx.lines[3].y
    /\ whitespaceIndicators[1].utilization[1] * 5 = 3 * whitespaceIndicators[1].utilization[2]
    /\ scale # Q

----------------------------------------------------------------------------
(* The whitespace solution card: the two choices and the recommended one    *)

\* a rule that recommends shortening only under half of the width
recommendShortenBelow(ind) == ind.utilization[1] * 2 < ind.utilization[2]

\* recommendShorten = ind.utilization <= 0.5
recommendShorten(ind) == ind.utilization[1] * 2 <= ind.utilization[2]

\* choices
Choices(ind) ==
    <<[key |-> "expand", recommended |-> ~recommendShorten(ind)],
      [key |-> "shorten", recommended |-> recommendShorten(ind)]>>

\* the keys of the choices of finding i that are marked recommended
Recommended(i) ==
    {Choices(whitespaceIndicators[i])[c].key :
        c \in {c \in 1..2 : Choices(whitespaceIndicators[i])[c].recommended}}

\* twice the right extent of a line against the reference width: the line
\* fills at most half of the block
AtMostHalf(l) == (l.right - RefLeft) * 2 <= RefRight - RefLeft

\* C13 as stated: the recommended fix of a flagged line is "expand" when its
\* utilization is <= 0.5 and "shorten" otherwise.
C13_ExpandUpToHalf ==
    UtilDone =>
        \A k \in 1..Len(tx.lines) : \A i \in FindingsOf(tx.lines[k]) :
            Recommended(i) = IF AtMostHalf(tx.lines[k]) THEN {"expand"} ELSE {"shorten"}

\* C13, amended: the recommended fix of a flagged line is "shorten" when its
\* utilization is <= 0.5 and "expand" otherwise; exactly one of the two
\* choices is marked recommended.
C13_ShortenUpToHalf ==
    UtilDone =>
        \A k \in 1..Len(tx.lines) : \A i \in FindingsOf(tx.lines[k]) :
            /\ Recommended(i) = IF AtMostHalf(tx.lines[k]) THEN {"shorten"} ELSE {"expand"}
            /\ Cardinality({c \in 1..2 : Choices(whitespaceIndicators[i])[c].recommended}) = 1

\* a block with a flagged line at exactly half of the reference width, for
\* which "shorten" is recommended, and a flagged line above half
C13_Witness ==
    /\ UtilDone
    /\ \E k \in 1..Len(tx.lines) : \E i \in FindingsOf(tx.lines[k]) :
          /\ (tx.lines[k].right - RefLeft) * 2 = RefRight - RefLeft
          /\ Recommended(i) = {"shorten"}
    /\ \E k \in 1..Len(tx.lines) : \E i \in FindingsOf(tx.lines[k]) :
          /\ ~AtMostHalf(tx.lines[k])
          /\ Recommended(i) = {"expand"}

----------------------------------------------------------------------------
(* The season-date detector on one page                                    *)

MaxSeasonFrags == 4

\* A fragment with what the three expressions of the detector are to find in
\* it: the "<season> <year>" occurrences, the season word it ends with and
\* the year it starts with ("" for none).
Frag(str, full, trail, lead) == [str |-> str, full |-> full, trail |-> trail, lead |-> lead]

PairFrags == {
    Frag("Fall", <<>>, "Fall", ""),
    Frag("2023 - Present", <<>>, "", "2023"),
    Frag("2022 to Winter", <<>>, "Winter", "2022"),
    Frag("Spring 2021 - Summer", << <<"Spring", "2021">> >>, "Summer", ""),
    Frag("Intern", <<>>, "", ""),
    Frag(" ", <<>>, "", "") }

FullFrags == {
    Frag("Summer 2022 to Fall 2022", << <<"Summer", "2022">>, <<"Fall", "2022">> >>, "", ""),
    Frag("fall  2020, Spring 2021; WINTER 2021", << <<"fall", "2020">>, <<"Spring", "2021">>, <<"WINTER", "2021">> >>, "", ""),
    Frag("Fall2020 Waterfall 2021 Fall 20234", <<>>, "", ""),
    Frag("2019 Fall 2020 spring", << <<"Fall", "2020">> >>, "spring", "2019"),
    Frag("2024", <<>>, "", "2024"),
    Frag("Fall", <<>>, "Fall", "") }

SeasonInputs ==
    (SeqsUpTo(PairFrags, MaxSeasonFrags) \cup SeqsUpTo(FullFrags, 2)) \ {<<>>}

\* fragment i of a page spans from FragX(i) to FragRight(i)
FragX(i) == 10 * i

FragRight(i) == FragX(i) + 8

SeasonPage(frags) ==
    [height |-> 110, items |-> [i \in 1..Len(frags) |-> It(frags[i].str, FragX(i), 50, FragRight(i) - FragX(i), 10)]]

InitSeason ==
    /\ Parked
    /\ cl = IdleCluster
    /\ ms = IdleScan
    /\ \E frags \in SeasonInputs :
          tx = [pc |-> "called", kind |-> "season", frags |-> frags, page |-> SeasonPage(frags)]

\* analyzeSeasonDates on a document of the one page tx.page
SeasonPass ==
    /\ tx.pc = "called" /\ tx.kind = "season"
    /\ tx' = [tx EXCEPT !.pc = "returned"]
    /\ seasonIssues' = SeasonDatesPage(1, tx.page, DocViewportScale)
    /\ UNCHANGED <<doc, numPages, pageNumber, scale, loading, error, pdfDoc, marginData,
                   whitespaceIndicators, degreeIssues, clutterIssues, sectionOrderIssues,
                   sectionSizeIssues, selectedSolution, canvas, renderPending, rafQueue,
                   wsPasses, det, navs, wsTag, mgTag, lastCommit, cl, ms>>

NextSeason == SeasonPass

SpecSeason == InitSeason /\ [][NextSeason]_vars

SeasonDone == tx.pc = "returned" /\ tx.kind = "season"

\* the fragments that are not blank, each with its place on the page
Vis == SelectIdx([i \in 1..Len(tx.frags) |-> [f |-> tx.frags[i], at |-> i]],
                 {i \in 1..Len(tx.frags) : tx.frags[i].str # " "})

\* the first of the 3 fragments after v[i] that starts with a year, or 0
YearAfter(v, i) ==
    LET js == {j \in (i + 1)..(i + 3) : j <= Len(v) /\ v[j].f.lead # ""}
    IN IF js = {} THEN 0 ELSE CHOOSE j \in js : \A j2 \in js : j <= j2

\* v[i] ends with a season word and a year starts one of the 3 fragments after it
SplitPair(v, i) == v[i].f.trail # "" /\ YearAfter(v, i) # 0

\* v[i] is paired with the year after it: it has no "<season> <year>" of its
\* own and is not the year of an earlier pair
RECURSIVE Paired(_, _)
Paired(v, i) ==
    /\ SplitPair(v, i)
    /\ v[i].f.full = <<>>
    /\ ~\E k \in 1..(i - 1) : Paired(v, k) /\ YearAfter(v, k) = i

MonthOf(season) ==
    CASE season \in {"Spring", "spring"} -> "May"
      [] season \in {"Summer", "summer"} -> "August"
      [] season \in {"Fall", "fall"} -> "December"
      [] season \in {"Winter", "WINTER"} -> "December"

\* the issues anchored at the fragment a
IssuesAt(a) == {k \in 1..Len(seasonIssues) : seasonIssues[k].baseX = FragX(a.at) * Q}

\* the issues that span from the fragment a to the end of the fragment b
IssuesFor(a, b) ==
    {k \in IssuesAt(a) :
        seasonIssues[k].baseWidth = (FragRight(b.at) - FragX(a.at)) * Q}

\* exactly one issue spans v[i] and its year, with season, year and month of the pair
OneIssueForPair(v, i) ==
    /\ Cardinality(IssuesFor(v[i], v[YearAfter(v, i)])) = 1
    /\ \A k \in IssuesFor(v[i], v[YearAfter(v, i)]) :
          /\ seasonIssues[k].season = v[i].f.trail
          /\ seasonIssues[k].year = v[YearAfter(v, i)].f.lead
          /\ seasonIssues[k].suggestedMonth = MonthOf(v[i].f.trail)

\* C14 as stated: whenever a fragment ends with a season word and one of the
\* following 3 fragments starts with a 4-digit year, exactly one issue is
\* produced for the pair, with that season, that year and the mapped month.
C14_EverySplitPairFlagged ==
    SeasonDone => \A i \in 1..Len(Vis) : SplitPair(Vis, i) => OneIssueForPair(Vis, i)

\* C14: a fragment that ends with a season word, holds no "<season> <year>"
\* of its own and was not consumed as the year of an earlier pair, followed
\* within 3 non-blank fragments by one that starts with a 4-digit year, gives
\* exactly one issue, anchored at it and spanning to the first such fragment,
\* with that season, that year and the mapped month; a fragment that is not
\* paired gives no issue spanning two fragments.
C14_UnconsumedSplitPairFlagged ==
    SeasonDone =>
        \A i \in 1..Len(Vis) :
            /\ Paired(Vis, i) => OneIssueForPair(Vis, i) /\ Cardinality(IssuesAt(Vis[i])) = 1
            /\ ~Paired(Vis, i) =>
                  IssuesFor(Vis[i], Vis[i]) = IssuesAt(Vis[i])

\* "Fall" then "2023 - Present" gave the one issue (Fall, 2023, December)
C14_Witness ==
    /\ SeasonDone
    /\ Len(tx.frags) = 2
    /\ tx.frags[1].str = "Fall" /\ tx.frags[2].str = "2023 - Present"
    /\ Len(seasonIssues) = 1
    /\ seasonIssues[1].season = "Fall"
    /\ seasonIssues[1].year = "2023"
    /\ seasonIssues[1].suggestedMonth = "December"

\* season and year of the issues anchored at the fragment a, in the order stored
PayloadAt(a) ==
    LET at(iss) == [k \in 1..Len(iss) |-> <<iss[k].season, iss[k].year>>]
    IN at(SelectIdx(seasonIssues, IssuesAt(a)))

\* v[i] was taken as the year of an earlier split pair
Consumed(v, i) == \E k \in 1..(i - 1) : Paired(v, k) /\ YearAfter(v, k) = i

\* the issues anchored at v[i] are its "<season> <year>" occurrences from left
\* to right, each with the mapped month and none spanning a second fragment
OccurrencesFlagged(v, i) ==
    /\ PayloadAt(v[i]) = v[i].f.full
    /\ \A k \in IssuesAt(v[i]) :
          /\ seasonIssues[k].suggestedMonth = MonthOf(seasonIssues[k].season)
          /\ k \in IssuesFor(v[i], v[i])

\* C15 as stated: every fragment with k >= 1 non-overlapping
\* "<season> <4-digit year>" occurrences yields exactly k issues, from left to
\* right, and none for a split season/year pair.
C15_EveryOccurrenceFlagged ==
    SeasonDone =>
        \A i \in 1..Len(Vis) : Vis[i].f.full # <<>> => OccurrencesFlagged(Vis, i)

\* C15: a fragment with k >= 1 non-overlapping "<season> <4-digit year>"
\* occurrences that was not consumed as the year of an earlier split pair
\* yields exactly k issues, from left to right, and none for a split
\* season/year pair; a fragment that was consumed yields no issue at all.
C15_UnconsumedOccurrencesFlagged ==
    SeasonDone =>
        \A i \in 1..Len(Vis) :
            /\ Vis[i].f.full # <<>> /\ ~Consumed(Vis, i) => OccurrencesFlagged(Vis, i)
            /\ Consumed(Vis, i) => IssuesAt(Vis[i]) = {}

\* "Summer 2022 to Fall 2022" alone gave the two issues of its occurrences
C15_Witness ==
    /\ SeasonDone
    /\ Len(tx.frags) = 1
    /\ tx.frags[1].str = "Summer 2022 to Fall 2022"
    /\ Len(seasonIssues) = 2
    /\ seasonIssues[1].season = "Summer" /\ seasonIssues[1].year = "2022"
    /\ seasonIssues[2].season = "Fall" /\ seasonIssues[2].year = "2022"

----------------------------------------------------------------------------
(* The degree-abbreviation detector on one page                            *)

MaxDegreeFrags == 3

\* A fragment with what the detector is to find in it: abbr, the degree types
\* (indices of DEGREE_CHECKS) whose abbreviation it holds; full, those whose
\* formal name it holds; opens / closes, those whose formal name it starts at
\* its end / completes at its start.
Piece(str, abbr, full, opens, closes) ==
    [str |-> str, abbr |-> abbr, full |-> full, opens |-> opens, closes |-> closes]

DegreeFrags == {
    Piece("B.S. Computer Science", {1}, {}, {}, {}),
    Piece("B.A., Bachelor of Science", {2}, {1}, {}, {}),
    Piece("M.S. Physics, BA", {2, 3}, {}, {}, {}),
    Piece("minor, bachelor of", {}, {}, {1, 2}, {}),
    Piece("Arts and M.B.A.", {2, 5}, {}, {}, {2}),
    Piece("Ph.D candidate, BSc", {1, 4}, {}, {}, {}),
    Piece(" ", {}, {}, {}, {}) }

\* fragment i of a page of fragments one below the other
Stacked(f, i) == [f |-> f, x |-> FragX(i), y |-> 100 - 12 * i, width |-> FragRight(i) - FragX(i)]

StackedInputs ==
    {[i \in 1..Len(q) |-> Stacked(q[i], i)] : q \in SeqsUpTo(DegreeFrags, MaxDegreeFrags) \ {<<>>}}

\* The line "B.S. Computer Science, Expected 2025" as the fragments a text
\* layer may cut it into: cuts, the words after which a fragment ends;
\* the fragments lie within the line tolerance of each other.
LineWords == <<"B.S.", "Computer", "Science,", "Expected", "2025">>

Starts(cuts) == {1} \cup {k + 1 : k \in cuts}

WordsFrom(cuts, a) ==
    LET later == {b \in Starts(cuts) : b > a}
        last == IF later = {} THEN Len(LineWords)
                ELSE (CHOOSE b \in later : \A b2 \in later : b <= b2) - 1
    IN SubSeq(LineWords, a, last)

LineFrag(cuts, a, lift) ==
    [f |-> Piece(Join(WordsFrom(cuts, a), " "), IF a = 1 THEN {1} ELSE {}, {}, {}, {}),
     x |-> FragX(a), y |-> 50 + ((a * lift) % (LINE_TOLERANCE_PTS + 1)),
     width |-> 10 * Len(WordsFrom(cuts, a)) - 2]

\* the fragments in reading order, or with the rightmost one first in the stream
LineInputs ==
    {LET n == Cardinality(Starts(cuts))
         inOrder == SortAsc([k \in 1..n |-> LineFrag(cuts, CHOOSE a \in Starts(cuts) :
                                Cardinality({b \in Starts(cuts) : b < a}) = k - 1, lift)],
                            [k \in 1..n |-> k])
     IN IF lastFirst THEN <<inOrder[n]>> \o SubSeq(inOrder, 1, n - 1) ELSE inOrder :
        cuts \in SUBSET (1..(Len(LineWords) - 1)), lift \in 0..LINE_TOLERANCE_PTS,
        lastFirst \in BOOLEAN}

DegreeInputs == StackedInputs \cup LineInputs

DegreePageOf(frags) ==
    [height |-> 110,
     items |-> [i \in 1..Len(frags) |->
                   It(frags[i].f.str, frags[i].x, frags[i].y, frags[i].width, 10)]]

InitDegree ==
    /\ Parked
    /\ cl = IdleCluster
    /\ ms = IdleScan
    /\ \E frags \in DegreeInputs :
          tx = [pc |-> "called", kind |-> "degree", frags |-> frags, page |-> DegreePageOf(frags)]

\* analyzeDegreeAbbreviations on a document of the one page tx.page
DegreePass ==
    /\ tx.pc = "called" /\ tx.kind = "degree"
    /\ tx' = [tx EXCEPT !.pc = "returned"]
    /\ degreeIssues' = DegreePage(1, tx.page, DocViewportScale)
    /\ UNCHANGED <<doc, numPages, pageNumber, scale, loading, error, pdfDoc, marginData,
                   whitespaceIndicators, seasonIssues, clutterIssues, sectionOrderIssues,
                   sectionSizeIssues, selectedSolution, canvas, renderPending, rafQueue,
                   wsPasses, det, navs, wsTag, mgTag, lastCommit, cl, ms>>

NextDegree == DegreePass

SpecDegree == InitDegree /\ [][NextDegree]_vars

DegreeDone == tx.pc = "returned" /\ tx.kind = "degree"

\* the fragments of the page that are not blank, in stream order
Shown == SelectIdx(tx.frags, {i \in 1..Len(tx.frags) : tx.frags[i].f.str # " "})

\* the formal name of degree type c is in the text of the page
FormalIn(v, c) ==
    \E i \in 1..Len(v) :
        \/ c \in v[i].f.full
        \/ i < Len(v) /\ c \in v[i].f.opens /\ c \in v[i + 1].f.closes

\* the fragments that hold the abbreviation of degree type c
Abbreviating(v, c) == {i \in 1..Len(v) : c \in v[i].f.abbr}

\* the issues stored for degree type c
IssuesOfType(c) ==
    {k \in 1..Len(degreeIssues) :
        StartsWith(degreeIssues[k].suggested, DEGREE_CHECKS[c].fullLabel)}

AnchoredAt(k, frag) ==
    /\ degreeIssues[k].baseX = frag.x * Q
    /\ degreeIssues[k].pdfY = frag.y
    /\ degreeIssues[k].baseWidth = frag.width * Q

\* C16: for the page and every degree type of DEGREE_CHECKS there is at most
\* one issue; none if the formal name of the degree occurs anywhere in the
\* text of the page; otherwise, if a fragment holds the abbreviation, one
\* issue anchored to the first such fragment in stream order.
C16_OnePerDegreeType ==
    DegreeDone =>
        \A c \in 1..Len(DEGREE_CHECKS) :
            /\ Cardinality(IssuesOfType(c)) <= 1
            /\ FormalIn(Shown, c) => IssuesOfType(c) = {}
            /\ Abbreviating(Shown, c) = {} => IssuesOfType(c) = {}
            /\ ~FormalIn(Shown, c) /\ Abbreviating(Shown, c) # {} =>
                  /\ Cardinality(IssuesOfType(c)) = 1
                  /\ \A k \in IssuesOfType(c) :
                        AnchoredAt(k, Shown[CHOOSE i \in Abbreviating(Shown, c) :
                                               \A j \in Abbreviating(Shown, c) : i <= j])

\* a page on which two fragments abbreviate one degree, whose formal name is
\* absent, and a fragment abbreviates another, whose formal name is present:
\* one issue for the first degree, none for the second
C16_Witness ==
    /\ DegreeDone
    /\ \E c, d \in 1..Len(DEGREE_CHECKS) :
          /\ Cardinality(Abbreviating(Shown, c)) >= 2
          /\ ~FormalIn(Shown, c)
          /\ Cardinality(IssuesOfType(c)) = 1
          /\ Abbreviating(Shown, d) # {}
          /\ FormalIn(Shown, d)
          /\ IssuesOfType(d) = {}

\* the fragments of the page, from left to right, make up the one line
\* "B.S. Computer Science, Expected 2025"
OnlyLine ==
    LET read(sorted) == Join([k \in 1..Len(sorted) |-> sorted[k].f.str], " ")
    IN read(SortAsc(tx.frags, [k \in 1..Len(tx.frags) |-> tx.frags[k].x]))
           = "B.S. Computer Science, Expected 2025"

\* C17: for a page whose only line is "B.S. Computer Science, Expected 2025"
\* the detector stores exactly one issue, and its suggested text is exactly
\* "Bachelor of Science in Computer Science".
C17_SuggestedFormalName ==
    DegreeDone /\ OnlyLine =>
        /\ Len(degreeIssues) = 1
        /\ degreeIssues[1].suggested = "Bachelor of Science in Computer Science"

----------------------------------------------------------------------------
(* The section-order detector on one page                                  *)

MaxHeaders == 3

\* A line of the page: the strings of its fragments and the canonical section
\* it is the header of ("" for none)
HeadLine(parts, sec) == [parts |-> parts, sec |-> sec]

HeaderLines == {
    HeadLine(<<"Education">>, "Education"),
    HeadLine(<<"EXPERIENCE">>, "Experience"),
    HeadLine(<<"Projects">>, "Projects"),
    HeadLine(<<"Activities">>, "Leadership"),
    HeadLine(<<"Technical", "Skills">>, "Skills"),
    HeadLine(<<"Skills">>, "Skills"),
    HeadLine(<<"Summary">>, "") }

OrderInputs == SeqsUpTo(HeaderLines, MaxHeaders) \ {<<>>}

\* the baseline of line k of the page, counted from the top
HeadY(k) == 100 - 12 * k

\* the fragments of the lines, from the top line down or from the bottom line up
OrderPage(heads, bottomUp) ==
    LET n == Len(heads)
        lineOf(k) == [j \in 1..Len(heads[k].parts) |->
                         It(heads[k].parts[j], 5 + 30 * (j - 1), HeadY(k), 28, 14)]
    IN [height |-> 110,
        items |-> Flatten([i \in 1..n |-> lineOf(IF bottomUp THEN n + 1 - i ELSE i)])]

MaxPageHeaders == 2

\* the lines of one page of a document of two pages
PageInputs ==
    SeqsUpTo({HeadLine(<<"Education">>, "Education"), HeadLine(<<"EXPERIENCE">>, "Experience"),
              HeadLine(<<"Skills">>, "Skills"), HeadLine(<<"Summary">>, "")}, MaxPageHeaders)

InitOrder ==
    /\ Parked
    /\ cl = IdleCluster
    /\ ms = IdleScan
    /\ \/ \E heads \in OrderInputs, bottomUp \in BOOLEAN :
              tx = [pc |-> "called", kind |-> "order", heads |-> heads,
                    page |-> OrderPage(heads, bottomUp)]
       \/ \E first, second \in PageInputs :
              tx = [pc |-> "called", kind |-> "orderDoc", heads |-> first \o second,
                    cut |-> Len(first),
                    pages |-> <<OrderPage(first, FALSE), OrderPage(second, TRUE)>>]

\* analyzeSectionOrder on a document of the one page tx.page
OrderPass ==
    /\ tx.pc = "called" /\ tx.kind = "order"
    /\ tx' = [tx EXCEPT !.pc = "returned"]
    /\ LET store(r) == sectionOrderIssues' = IF r.commit THEN r.issues ELSE sectionOrderIssues
       IN store(SectionOrderResult(SectionOrderPage(<<>>, 1, tx.page, DocViewportScale)))
    /\ UNCHANGED <<doc, numPages, pageNumber, scale, loading, error, pdfDoc, marginData,
                   whitespaceIndicators, seasonIssues, degreeIssues, clutterIssues,
                   sectionSizeIssues, selectedSolution, canvas, renderPending, rafQueue,
                   wsPasses, det, navs, wsTag, mgTag, lastCommit, cl, ms>>

\* analyzeSectionOrder on a document of the two pages tx.pages
OrderDocPass ==
    /\ tx.pc = "called" /\ tx.kind = "orderDoc"
    /\ tx' = [tx EXCEPT !.pc = "returned"]
    /\ LET store(r) == sectionOrderIssues' = IF r.commit THEN r.issues ELSE sectionOrderIssues
           second(found) == SectionOrderPage(found, 2, tx.pages[2], DocViewportScale)
       IN store(SectionOrderResult(second(SectionOrderPage(<<>>, 1, tx.pages[1], DocViewportScale))))
    /\ UNCHANGED <<doc, numPages, pageNumber, scale, loading, error, pdfDoc, marginData,
                   whitespaceIndicators, seasonIssues, degreeIssues, clutterIssues,
                   sectionSizeIssues, selectedSolution, canvas, renderPending, rafQueue,
                   wsPasses, det, navs, wsTag, mgTag, lastCommit, cl, ms>>

NextOrder == OrderPass \/ OrderDocPass

SpecOrder == InitOrder /\ [][NextOrder]_vars

OrderDone == tx.pc = "returned" /\ tx.kind = "order"

CanonicalOrder == <<"Education", "Experience", "Projects", "Leadership", "Skills">>

\* the lines that are the first header of their section, from the top
FirstHeaders ==
    {k \in 1..Len(tx.heads) :
        /\ tx.heads[k].sec # ""
        /\ \A j \in 1..(k - 1) : tx.heads[j].sec # tx.heads[k].sec}

\* the sections in the order found, and in canonical order
FoundSections ==
    LET secs(lines) == [i \in 1..Len(lines) |-> lines[i].sec]
    IN secs(SelectIdx(tx.heads, FirstHeaders))

ExpectedSections ==
    SelectIdx(CanonicalOrder, {e \in 1..Len(CanonicalOrder) :
                 \E i \in 1..Len(FoundSections) : FoundSections[i] = CanonicalOrder[e]})

\* the line of the header of the first section that is out of place
FirstMisplaced ==
    LET at(sec) == CHOOSE k \in FirstHeaders : tx.heads[k].sec = sec
        first(wrong) == CHOOSE i \in wrong : \A j \in wrong : i <= j
    IN at(FoundSections[first({i \in 1..Len(FoundSections) :
                                   FoundSections[i] # ExpectedSections[i]})])

\* C18: with at least two distinct canonical sections found, an issue is
\* stored iff the order found differs from the canonical order filtered to the
\* sections present; it is the only one, carries both lists and is anchored
\* to the header at the first index where the lists differ.
C18_IssueIffOutOfOrder ==
    OrderDone /\ Len(FoundSections) >= 2 =>
        IF FoundSections = ExpectedSections THEN sectionOrderIssues = <<>>
        ELSE /\ Len(sectionOrderIssues) = 1
             /\ sectionOrderIssues[1].foundOrder = FoundSections
             /\ sectionOrderIssues[1].expectedOrder = ExpectedSections
             /\ sectionOrderIssues[1].pdfY = HeadY(FirstMisplaced)
             /\ sectionOrderIssues[1].page = 1

\* headers Experience, Education, Skills: expected Education, Experience,
\* Skills, and the issue is at the Experience header
C18_Witness ==
    /\ OrderDone
    /\ FoundSections = <<"Experience", "Education", "Skills">>
    /\ Len(tx.heads) = 3
    /\ Len(sectionOrderIssues) = 1
    /\ sectionOrderIssues[1].expectedOrder = <<"Education", "Experience", "Skills">>
    /\ sectionOrderIssues[1].pdfY = HeadY(1)

----------------------------------------------------------------------------
(* Failures of the detectors                                                *)

\* One document load with its five detectors, interleaved freely at their
\* awaits, the first render and its two page-scoped passes; each of the seven
\* detectors may fail.
NextFail ==
    \/ onDocumentLoadSuccess
    \/ onDocumentLoadError
    \/ \E d \in Detectors : DetectorStep(d)
    \/ \E d \in Detectors : DetectorFail(d)
    \/ onPageRenderSuccess
    \/ \E i \in 1..MaxPasses : WsGetPage(i)
    \/ \E i \in 1..MaxPasses : WsFinish(i)
    \/ \E i \in 1..MaxPasses : WsFail(i)
    \/ \E ctx \in CtxOutcomes : analyzeMargins(ctx)

SpecFail == Init /\ [][NextFail]_vars

\* a step in which a detector fails: a read of a document-wide detector or of
\* the line-utilization pass rejects, or the raster cannot be read
FailStep ==
    \/ \E d \in Detectors : det[d].pc = "running" /\ det'[d].pc = "failed"
    \/ \E i \in 1..MaxPasses : WsFail(i)
    \/ \E ctx \in CtxOutcomes \ {"ok"} : analyzeMargins(ctx)

\* the failing step stores no findings, raises no error and leaves every
\* other detector where it was
NothingButTheFailure ==
    /\ UNCHANGED <<issueVars, whitespaceIndicators, marginData>>
    /\ UNCHANGED <<error, loading, pdfDoc>>
    /\ \A d \in Detectors : det'[d].pc # "failed" \/ det[d].pc = "failed" => det'[d] = det[d]
    /\ \A i \in 1..Len(wsPasses') : \E j \in 1..Len(wsPasses) : wsPasses'[i] = wsPasses[j]

\* whatever failed, a detector that is done has stored its findings on the
\* whole document, one that failed has stored none, and the viewer shows no
\* error once the document is loaded
DoneDespiteFailures ==
    /\ \A d \in Detectors :
          /\ det[d].pc = "done" => ListOf(d) = WholeList(d)
          /\ det[d].pc = "failed" => ListOf(d) = <<>>
    /\ pdfDoc => ~error
    /\ (\E d \in Detectors : det[d].pc = "failed") => ~error

\* C19: a detector that fails contributes no findings for that pass, the
\* failure is not surfaced as an error state of the viewer, and every other
\* detector still commits its own findings.
C19_FailureIsolated ==
    /\ []DoneDespiteFailures
    /\ [][FailStep => NothingButTheFailure]_vars

\* one document-wide detector failed and the raster could not be read; the
\* other four document-wide detectors and the line-utilization pass have
\* stored their findings, and the viewer shows no error
C19_Witness ==
    /\ \E d \in Detectors :
          /\ det[d].pc = "failed"
          /\ WholeList(d) # <<>>
          /\ \A d2 \in Detectors \ {d} : det[d2].pc = "done"
          /\ \E d2 \in Detectors \ {d} : ListOf(d2) # <<>>
    /\ canvas # NoCanvas /\ ~rafQueue /\ marginData = NoMargin
    /\ whitespaceIndicators # <<>>
    /\ ~error

----------------------------------------------------------------------------
(* The document-wide detectors and navigation                               *)

\* a step that changes the selected page or zoom, or ends the render that
\* such a change caused
PageOrZoomStep ==
    \/ pageNumber' # pageNumber
    \/ scale' # scale
    \/ renderPending /\ ~renderPending'

\* a step in which the document becomes loaded
LoadStep == ~pdfDoc /\ pdfDoc'

\* C20: the five document-wide detectors are started only by the document
\* load, are never started again, and a page change or zoom change starts none
\* of them and leaves their finding lists unchanged.
C20_StartedByLoadOnly ==
    [][/\ \A d \in Detectors :
             /\ det[d].pc # "running" /\ det'[d].pc = "running" => LoadStep /\ det[d].pc = "idle"
             /\ det[d].pc \in {"done", "failed"} => det'[d] = det[d]
       /\ LoadStep => \A d \in Detectors : det'[d].pc = "running"
       /\ PageOrZoomStep /\ ~LoadStep => UNCHANGED <<issueVars, det>>]_vars

\* all five detectors have stored their findings, some list is not empty, and
\* the viewer has since been taken to another page and another zoom level
C20_Witness ==
    /\ \A d \in Detectors : det[d].pc = "done" /\ ListOf(d) = WholeList(d)
    /\ \E d \in Detectors : ListOf(d) # <<>>
    /\ pageNumber # 1
    /\ scale # Q
    /\ canvas = Tag(pageNumber, scale)

\* the issues of split pairs that the fragment a takes part in, as the season
\* fragment or as the year fragment
PairIssuesWith(a) ==
    {k \in 1..Len(seasonIssues) :
        /\ seasonIssues[k].baseWidth # (FragRight(a.at) - FragX(a.at)) * Q
        /\ \/ seasonIssues[k].baseX = FragX(a.at) * Q
           \/ seasonIssues[k].baseX + seasonIssues[k].baseWidth = FragRight(a.at) * Q}

\* C21: within one page each fragment takes part in at most one split
\* season/year pairing; in particular one year fragment is never paired with
\* two different season fragments.
C21_FragmentPairedOnce ==
    SeasonDone => \A i \in 1..Len(Vis) : Cardinality(PairIssuesWith(Vis[i])) <= 1

----------------------------------------------------------------------------
(* Bucket choice of the grouping loop                                       *)

\* the distance of the fragment f to the key of bucket b
KeyDistance(f, b) ==
    IF YOf(f) >= cl.lineMap[b].key THEN YOf(f) - cl.lineMap[b].key
    ELSE cl.lineMap[b].key - YOf(f)

\* the fragment that opened bucket b
Opener(b) == cl.lineMap[b].items[1].id

\* C22: a non-blank fragment is in the earliest-opened bucket whose key (the
\* baseline-y of the fragment that opened it) is within the tolerance of its
\* baseline-y, whatever buckets opened later lie nearer; it opens a bucket of
\* its own, keyed by its baseline-y, only when no bucket open at that time is
\* within the tolerance; blank fragments are in no bucket.
C22_EarliestBucketInReach ==
    /\ \A i \in 1..(cl.i - 1) : i \in Placed <=> cl.items[i].str # " "
    /\ \A b \in 1..Len(cl.lineMap) : cl.lineMap[b].key = YOf(Opener(b))
    /\ \A b \in 1..(Len(cl.lineMap) - 1) : Opener(b) < Opener(b + 1)
    /\ \A f \in Placed :
          /\ KeyDistance(f, BucketOf(f)) <= 2
          /\ \A b \in 1..Len(cl.lineMap) :
                Opener(b) < f /\ KeyDistance(f, b) <= 2 => BucketOf(f) <= b

\* a fragment within the tolerance of two open buckets joined the one opened
\* first although the key of the other was nearer
C22_Witness ==
    /\ cl.i > Len(cl.items)
    /\ Len(cl.lineMap) = 2
    /\ \E f \in Placed :
          /\ Opener(2) < f
          /\ BucketOf(f) = 1
          /\ KeyDistance(f, 2) < KeyDistance(f, 1)

----------------------------------------------------------------------------
(* The lines the line-utilization pass takes as content                     *)

MaxRows == 4

\* A line of the page: a header ("Skills") or a text line that ends at right
Row(head, right) == [head |-> head, right |-> right]

RowKinds == {Row(TRUE, 45), Row(FALSE, 45), Row(FALSE, 25)}

RowInputs == SeqsUpTo(RowKinds, MaxRows) \ {<<>>}

\* the baseline of row k, counted from the top of the page
RowY(k) == 100 - 12 * k

\* every row starts at RowLeft(k)
RowLeft(k) == 5

RowsPage(rows) ==
    [height |-> 110,
     items |-> [k \in 1..Len(rows) |->
                   It(IF rows[k].head THEN "Skills" ELSE "abc", RowLeft(k), RowY(k),
                      rows[k].right - RowLeft(k), 10)]]

InitRows ==
    /\ Zoomed
    /\ cl = IdleCluster
    /\ ms = IdleScan
    /\ \E rows \in RowInputs :
          tx = [pc |-> "called", kind |-> "rows", rows |-> rows, page |-> RowsPage(rows)]

\* analyzeWhitespace after its awaits, on the page tx.page at the current zoom
RowsPass ==
    /\ tx.pc = "called" /\ tx.kind = "rows"
    /\ tx' = [tx EXCEPT !.pc = "returned"]
    /\ LET store(r) ==
               whitespaceIndicators' =
                   IF r.commit THEN SetWhitespaceIndicators(whitespaceIndicators, r.indicators)
                   ELSE whitespaceIndicators
       IN store(WhitespaceResult(tx.page, scale))
    /\ UNCHANGED <<doc, numPages, pageNumber, scale, loading, error, pdfDoc, marginData,
                   issueVars, selectedSolution, canvas, renderPending, rafQueue, wsPasses,
                   det, navs, wsTag, mgTag, lastCommit, cl, ms>>

NextRows == RowsPass

SpecRows == InitRows /\ [][NextRows]_vars

RowsDone == tx.pc = "returned" /\ tx.kind = "rows"

HeaderRows == {k \in 1..Len(tx.rows) : tx.rows[k].head}

\* the rows with a finding
FoundRows ==
    {k \in 1..Len(tx.rows) :
        \E i \in 1..Len(whitespaceIndicators) : whitespaceIndicators[i].pdfY = RowY(k)}

\* the rows of content that leave more than a quarter of the width of content unused
ShortRows(content) ==
    {k \in content :
        \A r \in content :
            (tx.rows[r].right - tx.rows[k].right) * 4 > tx.rows[r].right - RowLeft(r)
            \/ \E r2 \in content : tx.rows[r2].right > tx.rows[r].right}

\* the text rows strictly below the header row h
TextBelow(h) == {k \in 1..Len(tx.rows) : k > h /\ ~tx.rows[k].head}

\* C23 as stated: the content is the text lines strictly below the lowest
\* header line; without a header line there are no findings.
C23_ContentBelowLowestHeader ==
    RowsDone =>
        IF HeaderRows = {} THEN whitespaceIndicators = <<>>
        ELSE FoundRows = ShortRows(TextBelow(CHOOSE h \in HeaderRows : \A g \in HeaderRows : h >= g))

\* C23: the content is the text lines strictly below the topmost header line,
\* the lines between two headers included; lines above it and header lines
\* are not analysed; without a header line there are no findings.
C23_ContentBelowTopmostHeader ==
    RowsDone =>
        IF HeaderRows = {} THEN whitespaceIndicators = <<>>
        ELSE /\ FoundRows = ShortRows(TextBelow(CHOOSE h \in HeaderRows : \A g \in HeaderRows : h <= g))
             /\ Len(whitespaceIndicators) = Cardinality(FoundRows)

\* a short line between two headers, with a long line below the second one,
\* has a finding
C23_Witness ==
    /\ RowsDone
    /\ \E h1, k, h2, r \in 1..Len(tx.rows) :
          /\ h1 < k /\ k < h2 /\ h2 < r
          /\ tx.rows[h1].head /\ tx.rows[h2].head
          /\ ~tx.rows[k].head /\ ~tx.rows[r].head
          /\ tx.rows[k].right < tx.rows[r].right
          /\ k \in FoundRows

----------------------------------------------------------------------------
(* First occurrences of the sections over the pages of a document           *)

OrderReturned == tx.pc = "returned" /\ tx.kind \in {"order", "orderDoc"}

\* the page of line k of tx.heads, and its baseline
HeadPage(k) == IF tx.kind = "orderDoc" /\ k > tx.cut THEN 2 ELSE 1

HeadBaseline(k) == IF tx.kind = "orderDoc" /\ k > tx.cut THEN HeadY(k - tx.cut) ELSE HeadY(k)

\* C24: the found-order list holds each canonical section once, in the order
\* of the first header of each section over the pages in ascending order and
\* from the top of each page down; the issue lies at such a first header; when
\* fewer than two distinct canonical sections are found no issue is stored.
C24_FirstOccurrenceWins ==
    OrderReturned =>
        /\ Len(FoundSections) < 2 => sectionOrderIssues = <<>>
        /\ FoundSections = ExpectedSections => sectionOrderIssues = <<>>
        /\ \A k \in 1..Len(sectionOrderIssues) :
              /\ sectionOrderIssues[k].foundOrder = FoundSections
              /\ \A i, j \in 1..Len(sectionOrderIssues[k].foundOrder) :
                    i # j => sectionOrderIssues[k].foundOrder[i] # sectionOrderIssues[k].foundOrder[j]
              /\ \E h \in FirstHeaders :
                    /\ sectionOrderIssues[k].page = HeadPage(h)
                    /\ sectionOrderIssues[k].pdfY = HeadBaseline(h)

\* Skills and Education on the first page, Education again and Experience on
\* the second: the issue names each section once and lies on the first page
C24_Witness ==
    /\ tx.pc = "returned" /\ tx.kind = "orderDoc"
    /\ tx.cut = 2 /\ Len(tx.heads) = 4
    /\ tx.heads[3].sec = tx.heads[2].sec
    /\ Len(FoundSections) = 3
    /\ Len(sectionOrderIssues) = 1
    /\ sectionOrderIssues[1].foundOrder = FoundSections
    /\ sectionOrderIssues[1].page = 1

----------------------------------------------------------------------------
(* The gap between the text of a section and the header of the next one      *)

MaxGapRows == 4

\* A line of the page: a header whose tallest fragment has the given height, or
\* a text line; drop is the distance from the baseline of the line above.
GapRow(head, height, drop) == [head |-> head, height |-> height, drop |-> drop]

GapRowKinds ==
    {GapRow(TRUE, 11, 20), GapRow(TRUE, 12, 20), GapRow(TRUE, 11, 8),
     GapRow(FALSE, 10, 20), GapRow(FALSE, 10, 8)}

GapInputs == SeqsUpTo(GapRowKinds, MaxGapRows) \ {<<>>}

\* the baseline of row k
RECURSIVE GapY(_, _)
GapY(rows, k) == IF k = 0 THEN 20 * (MaxGapRows + 2) ELSE GapY(rows, k - 1) - rows[k].drop

\* what the header of row k reads, fragments joined
GapName(rows, k) == IF rows[k].height = 11 THEN "EducationNotes" ELSE "SkillsList"

\* the fragments of row k: a header is two fragments, the second the taller
GapFrags(rows, k) ==
    IF ~rows[k].head THEN <<It("abc", 5, GapY(rows, k), 40, rows[k].height)>>
    ELSE IF rows[k].height = 11
    THEN <<It("Education", 5, GapY(rows, k), 10, 5), It("Notes", 15, GapY(rows, k), 10, 11)>>
    ELSE <<It("Skills", 5, GapY(rows, k), 10, 5), It("List", 15, GapY(rows, k), 10, rows[k].height)>>

GapPage(rows) ==
    [height |-> 20 * (MaxGapRows + 3),
     items |-> Flatten([k \in 1..Len(rows) |-> GapFrags(rows, k)])]

InitGap ==
    /\ Parked
    /\ cl = IdleCluster
    /\ ms = IdleScan
    /\ \E rows \in GapInputs :
          tx = [pc |-> "called", kind |-> "gap", rows |-> rows, page |-> GapPage(rows)]

\* analyzeSectionSpacing on a document of the one page tx.page
GapPass ==
    /\ tx.pc = "called" /\ tx.kind = "gap"
    /\ tx' = [tx EXCEPT !.pc = "returned"]
    /\ clutterIssues' = SectionSpacingPage(1, tx.page, DocViewportScale)
    /\ UNCHANGED <<doc, numPages, pageNumber, scale, loading, error, pdfDoc, marginData,
                   whitespaceIndicators, seasonIssues, degreeIssues, sectionOrderIssues,
                   sectionSizeIssues, selectedSolution, canvas, renderPending, rafQueue,
                   wsPasses, det, navs, wsTag, mgTag, lastCommit, cl, ms>>

NextGap == GapPass

SpecGap == InitGap /\ [][NextGap]_vars

GapDone == tx.pc = "returned" /\ tx.kind = "gap"

GapHeaders == {k \in 1..Len(tx.rows) : tx.rows[k].head}

\* the second headers of the pairs of consecutive headers with a line between
SecondHeaders ==
    {b \in GapHeaders : b > 2 /\ ~tx.rows[b - 1].head /\ \E a \in GapHeaders : a < b}

\* the header before header b
HeaderBefore(b) == CHOOSE a \in GapHeaders : a < b /\ \A c \in GapHeaders : c < b => c <= a

\* the pairs that are too close: the line above the second header is the
\* lowest line between the two, drop away from the baseline of the header
CrampedHeaders ==
    {b \in SecondHeaders : tx.rows[b].drop - tx.rows[b].height < SPACING_THRESHOLD_PTS}

\* C25: for each pair of consecutive header lines of a page with a line
\* between them there is an issue naming both headers iff the baseline of the
\* lowest line between them, less the baseline of the second header, less the
\* height of its tallest fragment, is under 9 points; other pairs, and pages
\* of fewer than two headers, have no issue.
C25_IssueIffGapUnderThreshold ==
    GapDone =>
        /\ Len(clutterIssues) = Cardinality(CrampedHeaders)
        /\ \A b \in CrampedHeaders :
              \E i \in 1..Len(clutterIssues) :
                  /\ clutterIssues[i].pdfY = GapY(tx.rows, b)
                  /\ clutterIssues[i].page = 1
                  /\ clutterIssues[i].section1 = GapName(tx.rows, HeaderBefore(b))
                  /\ clutterIssues[i].section2 = GapName(tx.rows, b)
        /\ \A i \in 1..Len(clutterIssues) :
              \E b \in CrampedHeaders : clutterIssues[i].pdfY = GapY(tx.rows, b)

\* header, text, header 8 points under the text (an issue), header (none)
C25_Witness ==
    /\ GapDone
    /\ Len(tx.rows) = 4
    /\ tx.rows[1].head /\ ~tx.rows[2].head /\ tx.rows[3].head /\ tx.rows[4].head
    /\ tx.rows[3] = GapRow(TRUE, 12, 20)
    /\ Len(clutterIssues) = 1
    /\ clutterIssues[1].section1 = "EducationNotes" /\ clutterIssues[1].section2 = "SkillsList"

----------------------------------------------------------------------------
(* Section titles against the median height of the text of the page          *)

MaxTitleRows == 4

\* A line of the page: a header whose tallest fragment has the given height,
\* or a text line of one fragment of the given height
TitleRow(head, height) == [head |-> head, height |-> height]

TitleRowKinds ==
    {TitleRow(TRUE, 11), TitleRow(TRUE, 13),
     TitleRow(FALSE, 5), TitleRow(FALSE, 9), TitleRow(FALSE, 10), TitleRow(FALSE, 12),
     TitleRow(FALSE, 30)}

TitleInputs == SeqsUpTo(TitleRowKinds, MaxTitleRows) \ {<<>>}

TitleFrags(rows, k) ==
    IF rows[k].head
    THEN <<It("Education", 5, RowY(k), 10, rows[k].height), It("Notes", 15, RowY(k), 10, 5)>>
    ELSE <<It("abc", 5, RowY(k), 40, rows[k].height)>>

TitlePage(rows) ==
    [height |-> 110, items |-> Flatten([k \in 1..Len(rows) |-> TitleFrags(rows, k)])]

InitTitle ==
    /\ Parked
    /\ cl = IdleCluster
    /\ ms = IdleScan
    /\ \E rows \in TitleInputs :
          tx = [pc |-> "called", kind |-> "title", rows |-> rows, page |-> TitlePage(rows)]

\* analyzeSectionTitleSize on a document of the one page tx.page
TitlePass ==
    /\ tx.pc = "called" /\ tx.kind = "title"
    /\ tx' = [tx EXCEPT !.pc = "returned"]
    /\ sectionSizeIssues' = SectionTitleSizePage(1, tx.page, DocViewportScale)
    /\ UNCHANGED <<doc, numPages, pageNumber, scale, loading, error, pdfDoc, marginData,
                   whitespaceIndicators, seasonIssues, degreeIssues, clutterIssues,
                   sectionOrderIssues, selectedSolution, canvas, renderPending, rafQueue,
                   wsPasses, det, navs, wsTag, mgTag, lastCommit, cl, ms>>

NextTitle == TitlePass

SpecTitle == InitTitle /\ [][NextTitle]_vars

TitleDone == tx.pc = "returned" /\ tx.kind = "title"

TitleHeaders == {k \in 1..Len(tx.rows) : tx.rows[k].head}

\* the rows whose height enters the sample: text strictly between 5 and 30
SampleRows ==
    {k \in 1..Len(tx.rows) : ~tx.rows[k].head /\ tx.rows[k].height > 5 /\ tx.rows[k].height < 30}

\* the element at index floor(n / 2) of the sample in ascending order: the
\* height with at most floor(n / 2) elements under it and more than that
\* many not over it
SampleMedian ==
    LET n == Cardinality(SampleRows)
        under(v) == Cardinality({k \in SampleRows : tx.rows[k].height < v})
        upTo(v) == Cardinality({k \in SampleRows : tx.rows[k].height <= v})
    IN CHOOSE v \in {tx.rows[k].height : k \in SampleRows} :
          under(v) <= n \div 2 /\ n \div 2 < upTo(v)

\* the header rows with an issue
FlaggedTitles ==
    {k \in TitleHeaders : \E i \in 1..Len(sectionSizeIssues) : sectionSizeIssues[i].pdfY = RowY(k)}

\* C26: on a page with a header line and a text fragment of a height strictly
\* between 5 and 30, a header line is flagged iff the height of its tallest
\* fragment is at most the median of those heights plus 1, the median being
\* the element at index floor(n / 2) of the ascending sample; a page without
\* header or without sample has no issue.
C26_FlaggedIffWithinOneOfMedian ==
    TitleDone =>
        IF TitleHeaders = {} \/ SampleRows = {} THEN sectionSizeIssues = <<>>
        ELSE /\ FlaggedTitles = {k \in TitleHeaders : tx.rows[k].height <= SampleMedian + 1}
             /\ Len(sectionSizeIssues) = Cardinality(FlaggedTitles)

\* text of 10 and 12 points: the median is 12, and the header of 13 points is
\* flagged with the one of 11
C26_Witness ==
    /\ TitleDone
    /\ Len(tx.rows) = 4
    /\ {tx.rows[k] : k \in 1..4} =
          {TitleRow(TRUE, 11), TitleRow(TRUE, 13), TitleRow(FALSE, 10), TitleRow(FALSE, 12)}
    /\ Len(sectionSizeIssues) = 2

----------------------------------------------------------------------------
(* The deferred margin scan against changes of page and zoom                 *)

\* a step that changes the selected page or zoom
SelectionStep == pageNumber' # pageNumber \/ scale' # scale

\* a step that stores a margin measurement
MeasureStep == marginData'.present /\ marginData' # marginData

----------------------------------------------------------------------------
(* The box of a spacing issue                                                *)

\* the second header of the pair of issue i
GapHeaderOf(i) == CHOOSE b \in GapHeaders : clutterIssues[i].pdfY = GapY(tx.rows, b)

\* C28: the box stored with a spacing issue has a width and a height of zero
\* or more, and its height is the size of the region between the baseline of
\* the last line of text and the top of the second header (in viewport units
\* at zoom 1.0, y_view = pageHeight - y_doc).
C28_GapBoxNonNegative ==
    GapDone =>
        \A i \in 1..Len(clutterIssues) :
            /\ clutterIssues[i].baseWidth >= 0
            /\ clutterIssues[i].baseHeight >= 0
            /\ clutterIssues[i].baseHeight =
                  Abs(tx.rows[GapHeaderOf(i)].drop - tx.rows[GapHeaderOf(i)].height) * DocViewportScale

----------------------------------------------------------------------------
(* The selected card against the findings of the selected page               *)

MaxCards == 8        \* cards of the result panel that are clicked, from the top

\* the line-utilization cards: navigation, rendering, the line-utilization
\* passes and clicks on the cards they produce
NextCards ==
    \/ onDocumentLoadSuccess
    \/ onDocumentLoadError
    \/ goToPrevPage
    \/ goToNextPage
    \/ zoomIn
    \/ zoomOut
    \/ onPageRenderSuccess
    \/ \E i \in 1..MaxPasses : WsGetPage(i)
    \/ \E i \in 1..MaxPasses : WsFinish(i)
    \/ \E i \in 1..MaxPasses : WsFail(i)
    \/ \E k \in 1..MaxCards : onCardClick(k)

SpecCards == Init /\ [][NextCards]_vars

\* the entries of the result set with the selected key
SelectedEntries == {k \in 1..Len(allSolutions) : allSolutions[k].key = selectedSolution}

\* C29: selectedSolution is null or the key of an entry of the result set,
\* and that entry is the issue whose card was clicked; a change of page or
\* zoom never leaves a selection of a missing or of another finding.
C29_SelectionDesignatesClicked ==
    selectedSolution # "" =>
        /\ lastCommit.click.key = selectedSolution
        /\ \E k \in SelectedEntries : allSolutions[k].data = lastCommit.click.data

----------------------------------------------------------------------------
(* The selected page and zoom under the buttons and the cards                *)

\* the component as constructed at any zoom level, the document not loaded
InitNav == Zoomed /\ cl = IdleCluster /\ ms = IdleScan /\ tx = IdleText

\* the load, the detectors, the four buttons, the four handlers at their
\* limits, and the cards
NextNav ==
    \/ onDocumentLoadSuccess
    \/ onDocumentLoadError
    \/ DetectorTurn
    \/ goToPrevPage
    \/ goToNextPage
    \/ zoomIn
    \/ zoomOut
    \/ prevAtFirstPage
    \/ nextAtLastPage
    \/ zoomOutAtFirstLevel
    \/ zoomInAtLastLevel
    \/ \E k \in 1..MaxCards : onCardClick(k)

SpecNav == InitNav /\ [][NextNav]_vars

\* a handler called at its limit
LimitStep == prevAtFirstPage \/ nextAtLastPage \/ zoomOutAtFirstLevel \/ zoomInAtLastLevel

\* C30: whatever the sequence of goToPrevPage, goToNextPage, zoomIn, zoomOut
\* and card clicks, the zoom is one of the seven levels, pageNumber is at
\* least 1, and at most numPages once the document is loaded; previous at page
\* 1, next at the last page, zoom-out at 0.5 and zoom-in at 2.0 change neither
\* the page nor the zoom.
C30_PageAndZoomInRange ==
    /\ [](/\ scale \in {2, 3, 4, 5, 6, 7, 8}
          /\ pageNumber >= 1
          /\ pdfDoc => pageNumber <= numPages)
    /\ [][LimitStep => pageNumber' = pageNumber /\ scale' = scale]_vars

\* a click on the card of an issue of the last page has gone to that page, at
\* the last zoom level
C30_Witness ==
    /\ pdfDoc /\ numPages > 1
    /\ pageNumber = numPages
    /\ scale = ZOOM_LEVELS[Len(ZOOM_LEVELS)]
    /\ navs > 0
    /\ selectedSolution # ""
    /\ lastCommit.click.key = selectedSolution
    /\ lastCommit.click.data.page = pageNumber

=============================================================================
